---- MODULE Spec2Model ----
(***************************************************************************)
(* A model of the OpenWarrant core: the wildcard action matcher, the       *)
(* structured and legacy condition evaluators, the multi-gate decision     *)
(* engine (WarrantEngine.check) and the hash-chained audit ledger          *)
(* (AuditChain).                                                           *)
(*                                                                         *)
(* Python strings are sequences of one-character strings, so that split,   *)
(* lower and the substring tests of the source are computed, not assumed.  *)
(* Dictionary keys, operator names and enum values are only ever compared  *)
(* for equality by the source and are kept as atomic strings.              *)
(* Optional[T] is a sequence of length at most one: None is << >>.         *)
(***************************************************************************)
EXTENDS Integers, Sequences, FiniteSets, TLC

(***************************************************************************)
(* Bounds of the model.                                                    *)
(***************************************************************************)
\* The longest warrant catalog an engine is constructed with.
MaxCatalog == 2
\* The number of check calls (audit records) explored per engine.
MaxChecks == 3
\* The number of threads that call check concurrently.
NThreads == 2
\* The largest number of AUTHORIZED decisions in the history of an engine.
MaxAuthorized == 51
\* The number of check calls explored per engine with event hooks.
MaxHookChecks == 2
\* The longest pattern and the longest action, in characters, handed to
\* the action matcher.
MaxPatternLen == 5
MaxActionLen == 3
MaxFaultChecks == 2
MaxListLen == 3

(***************************************************************************)
(* Strings.                                                                *)
(***************************************************************************)
None == << >>
Some(x) == << x >>

\* str.lower() on one character (the letters the model's texts use).
LowerChar(c) ==
    CASE c = "A" -> "a" [] c = "C" -> "c" [] c = "D" -> "d" [] c = "E" -> "e"
      [] c = "F" -> "f" [] c = "H" -> "h" [] c = "L" -> "l" [] c = "M" -> "m"
      [] c = "N" -> "n" [] c = "O" -> "o" [] c = "P" -> "p" [] c = "R" -> "r"
      [] c = "S" -> "s" [] c = "T" -> "t" [] c = "V" -> "v" [] c = "W" -> "w"
      [] c = "X" -> "x"
      [] OTHER -> c

\* str.lower()
Lower(s) == [i \in 1..Len(s) |-> LowerChar(s[i])]

\* needle in s  (Python's substring test on str)
Contains(s, needle) ==
    \E i \in 1..(Len(s) - Len(needle) + 1) :
        \A j \in 1..Len(needle) : s[i + j - 1] = needle[j]

\* s.split(".") : the segments between dots; "" gives one empty segment.
RECURSIVE SplitFrom(_, _, _)
SplitFrom(s, i, cur) ==
    IF i > Len(s) THEN << cur >>
    ELSE IF s[i] = "." THEN << cur >> \o SplitFrom(s, i + 1, << >>)
    ELSE SplitFrom(s, i + 1, Append(cur, s[i]))

Split(s) == SplitFrom(s, 1, << >>)

\* str(n) for an integer n.
Digit(d) == CASE d = 0 -> "0" [] d = 1 -> "1" [] d = 2 -> "2" [] d = 3 -> "3"
              [] d = 4 -> "4" [] d = 5 -> "5" [] d = 6 -> "6" [] d = 7 -> "7"
              [] d = 8 -> "8" [] d = 9 -> "9"

RECURSIVE StrOfNat(_)
StrOfNat(n) == IF n < 10 THEN << Digit(n) >>
               ELSE Append(StrOfNat(n \div 10), Digit(n % 10))

StrOfInt(n) == IF n < 0 THEN << "-" >> \o StrOfNat(0 - n) ELSE StrOfNat(n)

(***************************************************************************)
(* action_matcher.py                                                       *)
(***************************************************************************)
Star == << "*" >>

\* The loop of action_matches from pattern segment i on: the first segment
\* that decides (a "*", a missing or a different action segment) returns;
\* an exhausted pattern compares the lengths.
RECURSIVE MatchFrom(_, _, _)
\* A loop whose "*" needs an action segment of its own to match.
MatchFrom_one_or_more(pattern_parts, action_parts, i) ==
    IF i > Len(pattern_parts) THEN Len(pattern_parts) = Len(action_parts)
    ELSE IF pattern_parts[i] = Star THEN i <= Len(action_parts)
    ELSE IF i > Len(action_parts) THEN FALSE
    ELSE IF pattern_parts[i] # action_parts[i] THEN FALSE
    ELSE MatchFrom(pattern_parts, action_parts, i + 1)

MatchFrom(pattern_parts, action_parts, i) ==
    IF i > Len(pattern_parts) THEN Len(pattern_parts) = Len(action_parts)
    ELSE IF pattern_parts[i] = Star THEN TRUE
    ELSE IF i > Len(action_parts) THEN FALSE
    ELSE IF pattern_parts[i] # action_parts[i] THEN FALSE
    ELSE MatchFrom(pattern_parts, action_parts, i + 1)

\* A matcher that looks at no more action segments than the pattern has.
action_matches_prefix(pattern, action) ==
    MatchFrom(Split(pattern), SubSeq(Split(action), 1, Len(Split(pattern))), 1)

action_matches(pattern, action) == MatchFrom(Split(pattern), Split(action), 1)

(***************************************************************************)
(* Python values of a request context and of a condition: a tag and a      *)
(* payload.  int, str (characters), bool, list (of values), dict, None.    *)
(***************************************************************************)
IntV(n) == [t |-> "int", v |-> n]
StrV(s) == [t |-> "str", v |-> s]
BoolV(b) == [t |-> "bool", v |-> b]
ListV(l) == [t |-> "list", v |-> l]
DictV(d) == [t |-> "dict", v |-> d]
NoneV == [t |-> "none", v |-> 0]

\* isinstance(x, (int, float)): bool is a subclass of int.
IsNumber(x) == x.t \in {"int", "bool"}

\* The number a numeric value compares as (True is 1, False is 0).
NumOf(x) == IF x.t = "bool" THEN (IF x.v THEN 1 ELSE 0) ELSE x.v

\* bool(x)
Truthy(x) ==
    CASE x.t = "int" -> x.v # 0
      [] x.t = "bool" -> x.v
      [] x.t = "str" -> Len(x.v) > 0
      [] x.t = "list" -> Len(x.v) > 0
      [] x.t = "dict" -> DOMAIN x.v # {}
      [] OTHER -> FALSE

\* a == b
PyEq(a, b) ==
    IF IsNumber(a) /\ IsNumber(b) THEN NumOf(a) = NumOf(b)
    ELSE a.t = b.t /\ a.v = b.v

\* x in l, for a list l
InList(x, l) == \E i \in 1..Len(l) : PyEq(x, l[i])

\* repr(x) and str(x); they differ on str only (repr quotes it).
RECURSIVE PyRepr(_)
RECURSIVE ReprItems(_, _)
ReprItems(l, i) ==
    IF i > Len(l) THEN << >>
    ELSE (IF i > 1 THEN << ",", " " >> ELSE << >>) \o PyRepr(l[i]) \o ReprItems(l, i + 1)

PyRepr(x) ==
    CASE x.t = "int" -> StrOfInt(x.v)
      [] x.t = "bool" -> (IF x.v THEN << "T", "r", "u", "e" >> ELSE << "F", "a", "l", "s", "e" >>)
      [] x.t = "str" -> << "'" >> \o x.v \o << "'" >>
      [] x.t = "list" -> << "[" >> \o ReprItems(x.v, 1) \o << "]" >>
      [] x.t = "dict" -> << "{", ".", ".", ".", "}" >>
      [] OTHER -> << "N", "o", "n", "e" >>

PyStr(x) == IF x.t = "str" THEN x.v ELSE PyRepr(x)

\* context.get(key, default)
CtxGet(context, key, default) ==
    IF key \in DOMAIN context THEN context[key] ELSE default

(***************************************************************************)
(* conditions.py: evaluate_constraint.  The result is a bool, or the call  *)
(* raises (ValueError for an unknown operator, TypeError for operands an   *)
(* operator cannot take).                                                  *)
(***************************************************************************)
Returns(b) == [raised |-> FALSE, val |-> b]
Raises == [raised |-> TRUE, val |-> FALSE]

Op_eq == << "e", "q" >>
Op_ne == << "n", "e" >>
Op_in == << "i", "n" >>
Op_not_in == << "n", "o", "t", "_", "i", "n" >>
Op_gt == << "g", "t" >>
Op_gte == << "g", "t", "e" >>
Op_lt == << "l", "t" >>
Op_lte == << "l", "t", "e" >>
Op_contains == << "c", "o", "n", "t", "a", "i", "n", "s" >>
Op_required == << "r", "e", "q", "u", "i", "r", "e", "d" >>

\* actual <op> expected for the ordered operators: numbers compare; any
\* other pair of operand types in the model's universe is a TypeError.
Ordered(op, actual, expected) ==
    IF IsNumber(actual) /\ IsNumber(expected)
    THEN Returns(CASE op = Op_gt -> NumOf(actual) > NumOf(expected)
                   [] op = Op_gte -> NumOf(actual) >= NumOf(expected)
                   [] op = Op_lt -> NumOf(actual) < NumOf(expected)
                   [] OTHER -> NumOf(actual) <= NumOf(expected))
    ELSE Raises

\* actual in expected: list membership, or substring when both are str;
\* anything else is a TypeError.
PyIn(actual, expected) ==
    IF expected.t = "list" THEN Returns(InList(actual, expected.v))
    ELSE IF expected.t = "str" /\ actual.t = "str" THEN Returns(Contains(expected.v, actual.v))
    ELSE Raises

Negated(r) == IF r.raised THEN r ELSE Returns(~r.val)

\* An evaluator that answers false for an operator it does not know.
evaluate_constraint_lenient(constraint, context) ==
    IF constraint.operator = Op_required
    THEN Returns(Truthy(CtxGet(context, constraint.field, NoneV)))
    ELSE IF constraint.field \notin DOMAIN context THEN Returns(FALSE)
    ELSE LET actual == context[constraint.field]
             expected == constraint.value
             op == constraint.operator
         IN CASE op = Op_eq -> Returns(PyEq(actual, expected))
              [] op = Op_ne -> Returns(~PyEq(actual, expected))
              [] op = Op_in -> PyIn(actual, expected)
              [] op = Op_not_in -> Negated(PyIn(actual, expected))
              [] op \in {Op_gt, Op_gte, Op_lt, Op_lte} -> Ordered(op, actual, expected)
              [] op = Op_contains -> IF expected.t = "str"
                                     THEN Returns(Contains(PyStr(actual), expected.v))
                                     ELSE Raises
              [] OTHER -> Returns(FALSE)

\* An evaluator for which a field that is absent differs from, and is
\* outside, every expected value.
evaluate_constraint_absent_differs(constraint, context) ==
    IF constraint.operator \in {Op_ne, Op_not_in} /\ constraint.field \notin DOMAIN context
    THEN Returns(TRUE)
    ELSE evaluate_constraint_lenient(constraint, context)

\* evaluate_constraint(constraint, context): the value returned, or the
\* exception raised.
evaluate_constraint(constraint, context) ==
    IF constraint.operator = Op_required
    THEN Returns(Truthy(CtxGet(context, constraint.field, NoneV)))
    ELSE IF constraint.field \notin DOMAIN context THEN Returns(FALSE)
    ELSE LET actual == context[constraint.field]
             expected == constraint.value
             op == constraint.operator
         IN CASE op = Op_eq -> Returns(PyEq(actual, expected))
              [] op = Op_ne -> Returns(~PyEq(actual, expected))
              [] op = Op_in -> PyIn(actual, expected)
              [] op = Op_not_in -> Negated(PyIn(actual, expected))
              [] op \in {Op_gt, Op_gte, Op_lt, Op_lte} -> Ordered(op, actual, expected)
              [] op = Op_contains -> IF expected.t = "str"
                                     THEN Returns(Contains(PyStr(actual), expected.v))
                                     ELSE Raises
              [] OTHER -> Raises

(***************************************************************************)
(* engine.py: _evaluate_conditions and _has_escalation_trigger.            *)
(* A ConditionResult is [condition, met, detail].                          *)
(***************************************************************************)
ConditionResult(condition, met, detail) ==
    [condition |-> condition, met |-> met, detail |-> detail]

\* The structured path: one result per constraint, detail "<operator> <value>";
\* a raising constraint aborts the evaluation.
RECURSIVE StructuredFrom(_, _, _)
StructuredFrom(constraints, context, i) ==
    IF i > Len(constraints) THEN [raised |-> FALSE, res |-> << >>]
    ELSE LET c == constraints[i]
             met == evaluate_constraint(c, context)
             rest == StructuredFrom(constraints, context, i + 1)
         IN IF met.raised \/ rest.raised THEN [raised |-> TRUE, res |-> << >>]
            ELSE [raised |-> FALSE,
                  res |-> << ConditionResult(c.field, met.val,
                                             c.operator \o << " " >> \o PyStr(c.value)) >>
                          \o rest.res]

\* int(value) for the threshold: digits of a str, the number of an int or
\* bool; a str that is no number raises ValueError.
DigitVal(c) == CASE c = "0" -> 0 [] c = "1" -> 1 [] c = "2" -> 2 [] c = "3" -> 3
                 [] c = "4" -> 4 [] c = "5" -> 5 [] c = "6" -> 6 [] c = "7" -> 7
                 [] c = "8" -> 8 [] c = "9" -> 9 [] OTHER -> -1

RECURSIVE ParseNat(_, _)
ParseNat(s, n) == IF n = 0 THEN 0 ELSE 10 * ParseNat(s, n - 1) + DigitVal(s[n])

IsDigits(s) == Len(s) > 0 /\ \A i \in 1..Len(s) : DigitVal(s[i]) >= 0

\* A threshold that is 0 for every value that is not a number already.
ThresholdOf_numbers_only(value) ==
    IF IsNumber(value) THEN [raised |-> FALSE, val |-> NumOf(value)]
    ELSE [raised |-> FALSE, val |-> 0]

\* [raised, val]: int(value) if isinstance(value, (int, float, str)) else 0
ThresholdOf(value) ==
    IF IsNumber(value) THEN [raised |-> FALSE, val |-> NumOf(value)]
    ELSE IF value.t = "str"
         THEN (IF IsDigits(value.v) THEN [raised |-> FALSE, val |-> ParseNat(value.v, Len(value.v))]
               ELSE [raised |-> TRUE, val |-> 0])
    ELSE [raised |-> FALSE, val |-> 0]

\* The result of one legacy condition {key: value}: [raised, res].
LegacyOne(key, value, request) ==
    LET ctx == request.context
        one(met, detail) == [raised |-> FALSE, res |-> ConditionResult(key, met, detail)]
    IN IF key = "escalation_threshold" \/ key = "single_trade_limit"
       THEN LET amount == CtxGet(ctx, "amount", CtxGet(ctx, "trade_amount", IntV(0)))
                threshold == ThresholdOf(value)
            IN IF threshold.raised THEN [raised |-> TRUE, res |-> ConditionResult(key, FALSE, << >>)]
               ELSE IF IsNumber(amount) /\ NumOf(amount) > threshold.val
               THEN one(FALSE, << "A", "m", "o", "u", "n", "t", " " >> \o PyStr(amount) \o << " ", "e", "x", "c", "e", "e", "d", "s", " ", "t", "h", "r", "e", "s", "h", "o", "l", "d", " " >>
                               \o StrOfInt(threshold.val) \o << " ", "-", " ", "e", "s", "c", "a", "l", "a", "t", "i", "o", "n", " ", "r", "e", "q", "u", "i", "r", "e", "d" >>)
               ELSE one(TRUE, << "W", "i", "t", "h", "i", "n", " ", "t", "h", "r", "e", "s", "h", "o", "l", "d", " ", "(" >> \o StrOfInt(threshold.val) \o << ")" >>)
       ELSE IF key = "payout_within_authority"
       THEN IF value.t = "dict"
            THEN LET limit == IF request.role \in DOMAIN value.v THEN value.v[request.role] ELSE IntV(0)
                     amount == CtxGet(ctx, "amount", CtxGet(ctx, "payout_amount", IntV(0)))
                 IN IF IsNumber(amount) /\ IsNumber(limit)
                    THEN IF NumOf(amount) > NumOf(limit)
                         THEN one(FALSE, << "A", "m", "o", "u", "n", "t", " " >> \o PyStr(amount) \o << " ", "e", "x", "c", "e", "e", "d", "s", " " >>
                                         \o request.role \o << " ", "l", "i", "m", "i", "t", " ", "o", "f", " " >> \o PyStr(limit))
                         ELSE one(TRUE, << "W", "i", "t", "h", "i", "n", " " >> \o request.role \o << " ", "l", "i", "m", "i", "t", " ", "(" >>
                                        \o PyStr(limit) \o << ")" >>)
                    ELSE one(TRUE, << "N", "o", " ", "a", "m", "o", "u", "n", "t", " ", "t", "o", " ", "c", "h", "e", "c", "k" >>)
            ELSE one(TRUE, << "C", "h", "e", "c", "k", "e", "d" >>)
       ELSE IF \/ value.t = "str" /\ value.v = << "r", "e", "q", "u", "i", "r", "e", "d" >>
               \/ value.t = "bool" /\ value.v
       THEN LET ctx_val == CtxGet(ctx, key, BoolV(FALSE))
                met == Truthy(ctx_val)
            IN one(met, (IF met THEN << "P", "r", "e", "s", "e", "n", "t" >> ELSE << "M", "i", "s", "s", "i", "n", "g", " ", "o", "r", " ", "f", "a", "l", "s", "e" >>) \o << " ", "i", "n", " ", "c", "o", "n", "t", "e", "x", "t" >>)
       ELSE IF value.t = "list"
       THEN LET ctx_val == CtxGet(ctx, key, StrV(<< >>))
                met == InList(ctx_val, value.v)
            IN one(met, << "V", "a", "l", "u", "e", " ", "'" >> \o PyStr(ctx_val) \o << "'", " " >>
                        \o (IF met THEN << "i", "n" >> ELSE << "n", "o", "t", " ", "i", "n" >>) \o << " ", "a", "l", "l", "o", "w", "e", "d", ":", " " >> \o PyStr(value))
       ELSE IF value.t = "str"
       THEN LET ctx_val == CtxGet(ctx, key, StrV(<< >>))
                met == PyStr(ctx_val) = PyStr(value)
            IN one(met, << "E", "x", "p", "e", "c", "t", "e", "d", " ", "'" >> \o PyStr(value) \o << "'", ",", " ", "g", "o", "t", " ", "'" >> \o PyStr(ctx_val) \o << "'" >>)
       ELSE one(TRUE, << "C", "o", "n", "d", "i", "t", "i", "o", "n", " ", "a", "c", "c", "e", "p", "t", "e", "d" >>)

RECURSIVE LegacyFrom(_, _, _)
LegacyFrom(conditions, request, i) ==
    IF i > Len(conditions) THEN [raised |-> FALSE, res |-> << >>]
    ELSE LET r == LegacyOne(conditions[i].key, conditions[i].value, request)
             rest == LegacyFrom(conditions, request, i + 1)
         IN IF r.raised \/ rest.raised THEN [raised |-> TRUE, res |-> << >>]
            ELSE [raised |-> FALSE, res |-> << r.res >> \o rest.res]

\* An evaluation that goes on to the legacy conditions after the structured
\* constraints.
evaluate_conditions_legacy_too(warrant, request) ==
    LET structured == StructuredFrom(warrant.context_constraints, request.context, 1)
        legacy == LegacyFrom(warrant.conditions, request, 1)
    IN [raised |-> structured.raised \/ legacy.raised, res |-> structured.res \o legacy.res]

\* _evaluate_conditions: the structured constraints when there are any,
\* otherwise the legacy conditions.  [raised, res].
evaluate_conditions(warrant, request) ==
    IF Len(warrant.context_constraints) > 0
    THEN StructuredFrom(warrant.context_constraints, request.context, 1)
    ELSE LegacyFrom(warrant.conditions, request, 1)

S_escalation == << "e", "s", "c", "a", "l", "a", "t", "i", "o", "n" >>
S_threshold == << "t", "h", "r", "e", "s", "h", "o", "l", "d" >>
S_exceeds == << "e", "x", "c", "e", "e", "d", "s" >>

\* A trigger test that does not know the word "exceeds".
has_escalation_trigger_two_words(conditions) ==
    \E i \in 1..Len(conditions) :
        /\ ~conditions[i].met
        /\ \/ Contains(Lower(conditions[i].detail), S_escalation)
           \/ Contains(Lower(conditions[i].detail), S_threshold)

\* A trigger test that reads the detail of met conditions too.
has_escalation_trigger_any(conditions) ==
    \E i \in 1..Len(conditions) :
        \/ Contains(Lower(conditions[i].detail), S_escalation)
        \/ Contains(Lower(conditions[i].detail), S_threshold)
        \/ Contains(Lower(conditions[i].detail), S_exceeds)

has_escalation_trigger(conditions) ==
    \E i \in 1..Len(conditions) :
        /\ ~conditions[i].met
        /\ \/ Contains(Lower(conditions[i].detail), S_escalation)
           \/ Contains(Lower(conditions[i].detail), S_threshold)
           \/ Contains(Lower(conditions[i].detail), S_exceeds)

(***************************************************************************)
(* engine.py: WarrantEngine.check, the loop over the catalog.              *)
(*                                                                         *)
(* A datetime is [wall, tz]: its wall-clock reading and its tzinfo (None   *)
(* for a naive one, Some(offset) for an aware one).                        *)
(***************************************************************************)
\* dt.replace(tzinfo=None) if dt.tzinfo else dt: the wall-clock reading is
\* kept and the offset dropped.
Naive(dt) == [wall |-> dt.wall, tz |-> None]

\* dt.isoformat(): the wall-clock reading, then the offset of an aware one.
IsoFormat(dt) ==
    StrOfInt(dt.wall) \o (IF dt.tz = None THEN << >> ELSE << "+" >> \o StrOfInt(dt.tz[1]))

WarrantAuthority(w) ==
    [issuer |-> w.issuer, type |-> w.id, issued |-> IsoFormat(w.valid_from),
     expires |-> IsoFormat(w.valid_until), scope |-> w.actions]

TrustElevation(eligible, new_level) == [eligible |-> eligible, new_level |-> new_level]

WarrantResponse(decision, warrant_id, authority, conditions_evaluated, trust_elevation, deny_reasons) ==
    [decision |-> decision, warrant_id |-> warrant_id, authority |-> authority,
     conditions_evaluated |-> conditions_evaluated,
     audit_hash |-> << >>, previous_hash |-> << >>,
     trust_elevation |-> trust_elevation, deny_reasons |-> deny_reasons]

DenyReason(w, suffix) == << "w", "a", "r", "r", "a", "n", "t", ":" >> \o w.id \o suffix

S_c_revoked == << ":", "r", "e", "v", "o", "k", "e", "d" >>
S_c_suspended == << ":", "s", "u", "s", "p", "e", "n", "d", "e", "d" >>
S_c_expired == << ":", "e", "x", "p", "i", "r", "e", "d" >>
S_c_conditions_failed == << ":", "c", "o", "n", "d", "i", "t", "i", "o", "n", "s", "_", "f", "a", "i", "l", "e", "d" >>
S_c_capability_not_allowed == << ":", "c", "a", "p", "a", "b", "i", "l", "i", "t", "y", "_", "n", "o", "t", "_", "a", "l", "l", "o", "w", "e", "d" >>
S_expired == << "e", "x", "p", "i", "r", "e", "d" >>

InSeq(x, l) == \E i \in 1..Len(l) : l[i] = x

\* A status check that lets a suspended warrant through.
status_reason_lenient(w) ==
    IF w.status # None /\ w.status = Some("revoked") THEN Some(S_c_revoked)
    ELSE None

\* The status check: the deny-reason suffix of a revoked or suspended
\* warrant, None for any other status (absent or ACTIVE).
status_reason(w) ==
    IF w.status # None /\ w.status = Some("revoked") THEN Some(S_c_revoked)
    ELSE IF w.status # None /\ w.status = Some("suspended") THEN Some(S_c_suspended)
    ELSE None

\* any(action_matches(pattern, request.action) for pattern in w.actions)
action_match(w, request) ==
    \E i \in 1..Len(w.actions) : action_matches(w.actions[i], request.action)

\* role_match with the role test dropped: every role passes.
role_match_any(w, request) == TRUE

\* A role test that an empty request role does not pass.
role_match_strict(w, request) ==
    \/ InSeq(request.role, w.roles)
    \/ Len(w.roles) = 0

\* (not request.role) or (request.role in w.roles) or (not w.roles)
role_match(w, request) ==
    \/ Len(request.role) = 0
    \/ InSeq(request.role, w.roles)
    \/ Len(w.roles) = 0

\* A data-type check that lets every data type through.
data_match_any(w, request) == TRUE

\* (not request.data_type) or (request.data_type in w.data_types) or (not w.data_types)
data_match(w, request) ==
    \/ Len(request.data_type) = 0
    \/ InSeq(request.data_type, w.data_types)
    \/ Len(w.data_types) = 0

\* A validity test whose window ends just before valid_until.
outside_validity_exclusive(w, request) ==
    LET now_naive == Naive(request.timestamp)
        valid_from == Naive(w.valid_from)
        valid_until == Naive(w.valid_until)
    IN now_naive.wall >= valid_until.wall \/ now_naive.wall < valid_from.wall

\* now_naive > valid_until or now_naive < valid_from
outside_validity(w, request) ==
    LET now_naive == Naive(request.timestamp)
        valid_from == Naive(w.valid_from)
        valid_until == Naive(w.valid_until)
    IN now_naive.wall > valid_until.wall \/ now_naive.wall < valid_from.wall

\* d.get(key): Some(value), or None for a missing key.
DictGet(d, key) == IF key \in DOMAIN d THEN Some(d[key]) ELSE None

\* The capability block: TRUE when it denies the warrant.  It looks at the
\* allowlist only when the context holds a non-empty dict at "__capability".
capability_denied(w, request) ==
    /\ Len(w.allowed_capabilities) > 0
    /\ LET cap_ctx == CtxGet(request.context, "__capability", NoneV)
       IN /\ Truthy(cap_ctx) /\ cap_ctx.t = "dict"
          /\ ~\E i \in 1..Len(w.allowed_capabilities) :
                 /\ DictGet(w.allowed_capabilities[i], "name") = DictGet(cap_ctx.v, "name")
                 /\ DictGet(w.allowed_capabilities[i], "version") = DictGet(cap_ctx.v, "version")

\* A trust elevation whose tiers start one call late.
elevation_of_late(at_10, at_50) ==
    LET first == IF at_10 > 10 THEN Some(TrustElevation(TRUE, Some(1))) ELSE None
    IN IF at_50 > 50 THEN Some(TrustElevation(TRUE, Some(2))) ELSE first

\* The trust elevation for the counter value the two tests read (at_10 by
\* the test against 10, at_50 by the test against 50).
elevation_of(at_10, at_50) ==
    LET first == IF at_10 >= 10 THEN Some(TrustElevation(TRUE, Some(1))) ELSE None
    IN IF at_50 >= 50 THEN Some(TrustElevation(TRUE, Some(2))) ELSE first

elevation(execution_count) == elevation_of(execution_count, execution_count)

\* The locals of check that live across loop iterations.
CheckLocals ==
    [deny_reasons |-> << >>, last_expired_warrant |-> None,
     last_failed_warrant |-> None, last_failed_conditions |-> << >>]

\* Code after the loop that reports the last deny reason only.
after_loop_last(loc) ==
    LET n == Len(loc.deny_reasons)
        reported == IF n = 0 THEN << >> ELSE << loc.deny_reasons[n] >>
    IN IF /\ loc.last_expired_warrant # None
          /\ \A k \in 1..n : Contains(loc.deny_reasons[k], S_expired)
       THEN LET w == loc.last_expired_warrant[1]
            IN WarrantResponse("EXPIRED", Some(w.id), Some(WarrantAuthority(w)),
                               << >>, None, reported)
       ELSE LET decision == IF n > 0 THEN "DENIED" ELSE "NO_WARRANT"
            IN IF loc.last_failed_warrant # None
               THEN LET lw == loc.last_failed_warrant[1]
                    IN WarrantResponse(decision, Some(lw.id), Some(WarrantAuthority(lw)),
                                       loc.last_failed_conditions, None, reported)
               ELSE WarrantResponse(decision, None, None, << >>, None, reported)

\* Code after the loop whose DENIED response names no warrant.
after_loop_bare(loc) ==
    IF /\ loc.last_expired_warrant # None
       /\ \A k \in 1..Len(loc.deny_reasons) : Contains(loc.deny_reasons[k], S_expired)
    THEN LET w == loc.last_expired_warrant[1]
         IN WarrantResponse("EXPIRED", Some(w.id), Some(WarrantAuthority(w)),
                            << >>, None, loc.deny_reasons)
    ELSE LET decision == IF Len(loc.deny_reasons) > 0 THEN "DENIED" ELSE "NO_WARRANT"
         IN WarrantResponse(decision, None, None, << >>, None, loc.deny_reasons)

\* The code after the loop: EXPIRED, or DENIED / NO_WARRANT.
after_loop(loc) ==
    IF /\ loc.last_expired_warrant # None
       /\ \A k \in 1..Len(loc.deny_reasons) : Contains(loc.deny_reasons[k], S_expired)
    THEN LET w == loc.last_expired_warrant[1]
         IN WarrantResponse("EXPIRED", Some(w.id), Some(WarrantAuthority(w)),
                            << >>, None, loc.deny_reasons)
    ELSE LET decision == IF Len(loc.deny_reasons) > 0 THEN "DENIED" ELSE "NO_WARRANT"
         IN IF loc.last_failed_warrant # None
            THEN LET lw == loc.last_failed_warrant[1]
                 IN WarrantResponse(decision, Some(lw.id), Some(WarrantAuthority(lw)),
                                    loc.last_failed_conditions, None, loc.deny_reasons)
            ELSE WarrantResponse(decision, None, None, << >>, None, loc.deny_reasons)

\* The outcome of check before the audit record is written:
\*   raised     the call ended in an exception (no response),
\*   response   the response built (audit hashes still empty),
\*   authorized TRUE when the AUTHORIZED branch ran (it increments the counter),
\*   visited    how many warrants the loop looked at.
Outcome(raised, response, authorized, visited) ==
    [raised |-> raised, response |-> response, authorized |-> authorized,
     visited |-> visited]

\* The loop of check from catalog position i, with the locals loc;
\* execution_count is the counter as the AUTHORIZED branch finds it.
RECURSIVE check_loop(_, _, _, _, _)
check_loop(warrants, request, execution_count, i, loc) ==
    IF i > Len(warrants) THEN Outcome(FALSE, after_loop(loc), FALSE, i - 1)
    ELSE
    LET w == warrants[i]
        deny(suffix) == [loc EXCEPT !.deny_reasons = Append(@, DenyReason(w, suffix))]
        next(l) == check_loop(warrants, request, execution_count, i + 1, l)
    IN IF status_reason(w) # None THEN next(deny(status_reason(w)[1]))
       ELSE IF ~action_match(w, request) THEN next(loc)
       ELSE IF ~role_match(w, request) THEN next(loc)
       ELSE IF ~data_match(w, request) THEN next(loc)
       ELSE IF outside_validity(w, request)
            THEN next([deny(S_c_expired) EXCEPT !.last_expired_warrant = Some(w)])
       ELSE
       LET conditions == evaluate_conditions(w, request)
       IN IF conditions.raised
          THEN Outcome(TRUE, after_loop(CheckLocals), FALSE, i)
          ELSE IF \E k \in 1..Len(conditions.res) : ~conditions.res[k].met
          THEN IF has_escalation_trigger(conditions.res)
               THEN Outcome(FALSE,
                            WarrantResponse("ESCALATE", Some(w.id), Some(WarrantAuthority(w)),
                                            conditions.res, None, loc.deny_reasons),
                            FALSE, i)
               ELSE next([deny(S_c_conditions_failed)
                            EXCEPT !.last_failed_warrant = Some(w),
                                   !.last_failed_conditions = conditions.res])
          ELSE IF capability_denied(w, request)
          THEN next(deny(S_c_capability_not_allowed))
          ELSE Outcome(FALSE,
                       WarrantResponse("AUTHORIZED", Some(w.id), Some(WarrantAuthority(w)),
                                       conditions.res, elevation(execution_count + 1), << >>),
                       TRUE, i)

(***************************************************************************)
(* audit.py: AuditChain.                                                   *)
(*                                                                         *)
(* SHA-256 is modelled as collision-free: the hash of content + previous   *)
(* hash is the pair itself, tagged "sha256".  The canonical JSON of the    *)
(* content is the record of its fields.  record_id (a random uuid that     *)
(* nothing reads) is left out of a record.                                 *)
(***************************************************************************)
\* "sha256:" + "0" * 64
GENESIS_HASH == << "sha256", "0000000000000000000000000000000000000000000000000000000000000000" >>

compute_hash(content, previous_hash) == << "sha256", content, previous_hash >>

\* datetime.utcnow().isoformat() + "Z" for the clock reading t
UtcStamp(t) == StrOfInt(t) \o << "Z" >>

\* The dicts built from response.conditions_evaluated.
ConditionDicts(conditions_evaluated) ==
    [i \in 1..Len(conditions_evaluated) |->
        [condition |-> conditions_evaluated[i].condition,
         met |-> conditions_evaluated[i].met,
         detail |-> conditions_evaluated[i].detail]]

\* The AuditRecord that record() builds: prev_hashed is _previous_hash as
\* read for the hash, prev_stored as read again for the record's field;
\* t_hash and t_store are the two clock readings (the timestamp hashed and
\* the timestamp stored).
AuditRecordOf(response, agent_id, action, correlation_id, prev_hashed, prev_stored, t_hash, t_store) ==
    LET conditions == ConditionDicts(response.conditions_evaluated)
        content == [agent_id |-> agent_id, warrant_id |-> response.warrant_id,
                    action |-> action, decision |-> response.decision,
                    conditions |-> conditions, correlation_id |-> correlation_id,
                    timestamp |-> UtcStamp(t_hash)]
    IN [timestamp |-> UtcStamp(t_store), agent_id |-> agent_id,
        warrant_id |-> response.warrant_id, action |-> action,
        decision |-> response.decision, conditions_evaluated |-> conditions,
        correlation_id |-> correlation_id, previous_hash |-> prev_stored,
        record_hash |-> compute_hash(content, prev_hashed)]

\* AuditRecord with the link to the chain lost: every record stores the
\* genesis hash as its previous_hash.
AuditRecord_unlinked(response, agent_id, action, correlation_id, previous_hash, t_hash, t_store) ==
    [timestamp |-> UtcStamp(t_store), agent_id |-> agent_id,
     warrant_id |-> response.warrant_id, action |-> action,
     decision |-> response.decision,
     conditions_evaluated |-> ConditionDicts(response.conditions_evaluated),
     correlation_id |-> correlation_id, previous_hash |-> GENESIS_HASH,
     record_hash |-> compute_hash([agent_id |-> agent_id, timestamp |-> UtcStamp(t_hash)],
                                  previous_hash)]

\* The record of a call that nothing interleaves with: both reads of
\* _previous_hash give the same value.
AuditRecord(response, agent_id, action, correlation_id, previous_hash, t_hash, t_store) ==
    AuditRecordOf(response, agent_id, action, correlation_id, previous_hash, previous_hash,
                  t_hash, t_store)

\* verify_chain: walk the records, expected_prev starting at the genesis hash.
RECURSIVE VerifyFrom(_, _, _)
VerifyFrom(records, i, expected_prev) ==
    IF i > Len(records) THEN TRUE
    ELSE IF records[i].previous_hash # expected_prev THEN FALSE
    ELSE VerifyFrom(records, i + 1, records[i].record_hash)

\* A verification that looks at the first record only.
verify_chain_head(records) ==
    IF Len(records) = 0 THEN TRUE ELSE records[1].previous_hash = GENESIS_HASH

verify_chain(records) ==
    IF Len(records) = 0 THEN TRUE ELSE VerifyFrom(records, 1, GENESIS_HASH)

\* Finalized with the two hashes swapped.
Finalized_swapped(response, record) ==
    [response EXCEPT !.audit_hash = record.previous_hash,
                     !.previous_hash = record.record_hash]

\* _record_and_notify: the response with the two hashes of its record.
Finalized(response, record) ==
    [response EXCEPT !.audit_hash = record.record_hash,
                     !.previous_hash = record.previous_hash]

(***************************************************************************)
(* The warrants and requests the model is run on.                          *)
(***************************************************************************)
DateTime(wall, tz) == [wall |-> wall, tz |-> tz]

\* models.py: Warrant, with the fields check reads.
Warrant(id, roles, actions, data_types, conditions, valid_from, valid_until, context_constraints, allowed_capabilities, status) ==
    [id |-> id, issuer |-> "issuer", roles |-> roles, actions |-> actions,
     data_types |-> data_types, conditions |-> conditions,
     valid_from |-> valid_from, valid_until |-> valid_until,
     context_constraints |-> context_constraints,
     allowed_capabilities |-> allowed_capabilities, status |-> status]

Constraint(field, operator, value) == [field |-> field, operator |-> operator, value |-> value]
Condition(key, value) == [key |-> key, value |-> value]

\* A warrant valid over [1, 2] (naive datetimes) for the actions a.*.
Plain(id) ==
    Warrant(id, << >>, << << "a", ".", "*" >> >>, << >>, << >>, DateTime(1, None), DateTime(2, None),
            << >>, << >>, None)

\* any action, any role, no condition
W_plain == Plain(<< "w", "1" >>)
\* the exact action, restricted roles and data types, aware validity bounds
W_scoped ==
    [Plain(<< "w", "2" >>) EXCEPT !.actions = << << "c" >>, << "a", ".", "b" >> >>, !.roles = << << "r", "1" >> >>,
                        !.data_types = << << "d", "1" >> >>, !.status = Some("active"),
                        !.valid_from = DateTime(1, Some(0)),
                        !.valid_until = DateTime(2, Some(0))]
W_revoked == [Plain(<< "w", "3" >>) EXCEPT !.status = Some("revoked")]
W_suspended == [Plain(<< "w", "4" >>) EXCEPT !.status = Some("suspended")]
\* valid over [0, 0] only
W_old == [Plain(<< "w", "5" >>) EXCEPT !.valid_from = DateTime(0, None), !.valid_until = DateTime(0, None)]
\* legacy conditions: a trade limit and a required flag
W_limit == [Plain(<< "w", "6" >>) EXCEPT !.conditions = << Condition("single_trade_limit", IntV(5)) >>]
W_consent == [Plain(<< "w", "7" >>) EXCEPT !.conditions = << Condition("consent", StrV(<< "r", "e", "q", "u", "i", "r", "e", "d" >>)) >>]
\* legacy conditions: a trade limit next to a required flag
W_both ==
    [Plain(<< "w", "1", "1" >>) EXCEPT
        !.conditions = << Condition("single_trade_limit", IntV(5)),
                          Condition("consent", StrV(<< "r", "e", "q", "u", "i", "r", "e", "d" >>)) >>]
\* a structured constraint whose expected value reads "Exceeds"
W_tier ==
    [Plain(<< "w", "1", "2" >>) EXCEPT
        !.context_constraints =
            << Constraint("tier", Op_eq, StrV(<< "E", "x", "c", "e", "e", "d", "s" >>)) >>]
\* a capability allowlist
W_cap == [Plain(<< "w", "8" >>) EXCEPT !.allowed_capabilities = << [name |-> << "m" >>, version |-> << "1" >>] >>]
\* structured constraints: a known and an unknown operator
W_lte == [Plain(<< "w", "9" >>) EXCEPT !.context_constraints = << Constraint("amount", Op_lte, IntV(5)) >>,
                             !.conditions = << Condition("consent", StrV(<< "r", "e", "q", "u", "i", "r", "e", "d" >>)) >>]
W_regex == [Plain(<< "w", "1", "0" >>) EXCEPT !.context_constraints = << Constraint("amount", << "r", "e", "g", "e", "x" >>, IntV(5)) >>]
\* a revoked warrant whose id holds the word "expired"
W_named == [Plain(<< "e", "x", "p", "i", "r", "e", "d", "-", "q", "1" >>) EXCEPT !.status = Some("revoked")]

Warrants ==
    {W_plain, W_scoped, W_revoked, W_suspended, W_old, W_limit, W_consent, W_cap,
     W_lte, W_regex, W_named, W_both, W_tier}

RECURSIVE SeqsUpTo(_, _)
SeqsUpTo(S, n) ==
    IF n = 0 THEN {<< >>}
    ELSE LET shorter == SeqsUpTo(S, n - 1)
         IN shorter \cup {Append(q, x) : q \in shorter, x \in S}

\* Every catalog of at most MaxCatalog warrants, in every order.
Catalogs == SeqsUpTo(Warrants, MaxCatalog)

\* models.py: WarrantRequest.  (timestamp is always set: __post_init__
\* fills a missing one.)
WarrantRequest(action, role, data_type, context, timestamp, correlation_id) ==
    [agent_id |-> "agent", action |-> action, role |-> role, data_type |-> data_type,
     context |-> context, timestamp |-> timestamp, correlation_id |-> correlation_id]

EmptyContext == [k \in {} |-> NoneV]
Ctx1(key, value) == [k \in {key} |-> value]

BaseRequest == WarrantRequest(<< "a", ".", "b" >>, << "r", "1" >>, << "d", "1" >>, EmptyContext, DateTime(1, None), None)

\* The base request and the requests that differ from it in one field.
Requests ==
    {BaseRequest}
    \cup {[BaseRequest EXCEPT !.action = a] : a \in {<< "c" >>, << "a" >>, << "a", ".", "b", ".", "c" >>}}
    \cup {[BaseRequest EXCEPT !.role = r] : r \in {<< >>, << "r", "2" >>}}
    \cup {[BaseRequest EXCEPT !.data_type = d] : d \in {<< >>, << "d", "2" >>}}
    \cup {[BaseRequest EXCEPT !.timestamp = t] :
            t \in {DateTime(0, None), DateTime(2, None), DateTime(3, None), DateTime(2, Some(1))}}
    \cup {[BaseRequest EXCEPT !.correlation_id = Some("corr-1")]}
    \cup {[BaseRequest EXCEPT !.context = c] :
            c \in {Ctx1("amount", IntV(3)), Ctx1("amount", IntV(7)),
                   Ctx1("trade_amount", IntV(7)), Ctx1("amount", StrV(<< "x" >>)),
                   Ctx1("consent", BoolV(TRUE)), Ctx1("consent", BoolV(FALSE)),
                   Ctx1("__capability", DictV([name |-> << "m" >>, version |-> << "1" >>])),
                   Ctx1("__capability", DictV([name |-> << "m" >>, version |-> << "2" >>])),
                   Ctx1("__capability", DictV([name |-> << "m" >>])),
                   Ctx1("__capability", StrV(<< "m" >>))}}

(***************************************************************************)
(* The engine as a state machine.                                          *)
(***************************************************************************)
VARIABLES
    warrants,         \* WarrantEngine._warrants, the catalog
    chain,            \* AuditChain._chain
    previous_hash,    \* AuditChain._previous_hash (the last_hash property)
    execution_count,  \* WarrantEngine._execution_count
    clock,            \* the reading of datetime.utcnow()
    call,             \* the last sequential call: its request and how it ended
    threads,          \* the calls in flight on concurrent threads
    hooks,            \* the callbacks registered: the engine's four hooks, the chain's sink
    events,           \* the callback invocations so far, each with what it was handed
    caller            \* the lists of warrants the caller holds: the one passed to the
                      \* constructor, then the one the warrants property last returned

vars == << warrants, chain, previous_hash, execution_count, clock, call, threads, hooks, events, caller >>

NoCall == [kind |-> "none"]

\* WarrantEngine.__init__ with warrants=catalog and the given callbacks
\* (and a fresh AuditChain); AuditChain.__init__ when used on its own.
ConstructedWith(catalog, callbacks) ==
    /\ warrants = catalog
    /\ chain = << >>
    /\ previous_hash = GENESIS_HASH
    /\ execution_count = 0
    /\ clock = 0
    /\ call = NoCall
    /\ hooks = callbacks
    /\ caller = << catalog >>
    /\ events = << >>

\* Construction without callbacks.
Constructed(catalog) == ConstructedWith(catalog, {})

\* A callback invocation: the callback, its argument, and the chain and
\* last_hash as they are when it is invoked.
Event(hook, arg) ==
    [hook |-> hook, arg |-> arg, seen_chain |-> chain', seen_last_hash |-> previous_hash']

\* A sink invoked before the record is part of the chain.
SinkFired_early(record) ==
    IF "on_record" \in hooks
    THEN << [hook |-> "on_record", arg |-> record, seen_chain |-> chain,
             seen_last_hash |-> previous_hash] >>
    ELSE << >>

\* if self._on_record: self._on_record(record)
SinkFired(record) ==
    IF "on_record" \in hooks THEN << Event("on_record", record) >> ELSE << >>

\* The hooks with the decision-specific one ahead of on_decision.
Notified_specific_first(response) ==
    (IF response.decision = "AUTHORIZED" /\ "on_authorized" \in hooks
     THEN << Event("on_authorized", response) >>
     ELSE IF response.decision = "DENIED" /\ "on_denied" \in hooks
     THEN << Event("on_denied", response) >>
     ELSE IF response.decision = "ESCALATE" /\ "on_escalate" \in hooks
     THEN << Event("on_escalate", response) >>
     ELSE << >>)
    \o (IF "on_decision" \in hooks THEN << Event("on_decision", response) >> ELSE << >>)

\* The event hooks of _record_and_notify, for the finalized response.
Notified(response) ==
    (IF "on_decision" \in hooks THEN << Event("on_decision", response) >> ELSE << >>)
    \o (IF response.decision = "AUTHORIZED" /\ "on_authorized" \in hooks
        THEN << Event("on_authorized", response) >>
        ELSE IF response.decision = "DENIED" /\ "on_denied" \in hooks
        THEN << Event("on_denied", response) >>
        ELSE IF response.decision = "ESCALATE" /\ "on_escalate" \in hooks
        THEN << Event("on_escalate", response) >>
        ELSE << >>)

\* A record call that appends but leaves _previous_hash where it was.
Recorded_stale(response, agent_id, action, correlation_id, t_hash, t_store) ==
    LET record == AuditRecord(response, agent_id, action, correlation_id,
                              previous_hash, t_hash, t_store)
    IN /\ chain' = Append(chain, record)
       /\ previous_hash' = previous_hash
       /\ clock' = t_store

\* AuditChain.record, run to completion: the record is appended and
\* _previous_hash moves to its hash.  The clock is read twice.
Recorded(response, agent_id, action, correlation_id, t_hash, t_store) ==
    LET record == AuditRecord(response, agent_id, action, correlation_id,
                              previous_hash, t_hash, t_store)
    IN /\ chain' = Append(chain, record)
       /\ previous_hash' = record.record_hash
       /\ clock' = t_store

\* A check that counts every call that returns, whatever it decided.
CheckReturns_counting(request) ==
    LET out == check_loop(warrants, request, execution_count, 1, CheckLocals)
    IN /\ ~out.raised
       /\ \E t_hash \in clock..(clock + 1) :
          \E t_store \in t_hash..(t_hash + 1) :
             /\ Recorded(out.response, request.agent_id, request.action,
                         request.correlation_id, t_hash, t_store)
             /\ call' = [kind |-> "returned", request |-> request,
                         response |-> Finalized(out.response, chain'[Len(chain')]),
                         visited |-> out.visited]
       /\ events' = events \o SinkFired(chain'[Len(chain')])
                           \o Notified(Finalized(out.response, chain'[Len(chain')]))
       /\ execution_count' = execution_count + 1
       /\ UNCHANGED << warrants, threads, hooks, caller >>

\* A check whose deny reasons start from one left over by each earlier
\* call that did not authorize.
CheckReturns_kept(request) ==
    LET leftover == SelectSeq(chain, LAMBDA r : r.decision # "AUTHORIZED")
        kept == [k \in 1..Len(leftover) |-> << "k", "e", "p", "t" >>]
        out == check_loop(warrants, request, execution_count, 1,
                          [CheckLocals EXCEPT !.deny_reasons = kept])
    IN /\ ~out.raised
       /\ \E t_hash \in clock..(clock + 1) :
          \E t_store \in t_hash..(t_hash + 1) :
             /\ Recorded(out.response, request.agent_id, request.action,
                         request.correlation_id, t_hash, t_store)
             /\ call' = [kind |-> "returned", request |-> request,
                         response |-> Finalized(out.response, chain'[Len(chain')]),
                         visited |-> out.visited]
       /\ events' = events \o SinkFired(chain'[Len(chain')])
                           \o Notified(Finalized(out.response, chain'[Len(chain')]))
       /\ execution_count' = IF out.authorized THEN execution_count + 1 ELSE execution_count
       /\ UNCHANGED << warrants, threads, hooks, caller >>

\* check(request) returning a response: the loop, the counter increment of
\* the AUTHORIZED branch, then _record_and_notify (AuditChain.record, and
\* the hashes of the new record copied into the response).
CheckReturns(request) ==
    LET out == check_loop(warrants, request, execution_count, 1, CheckLocals)
    IN /\ ~out.raised
       /\ \E t_hash \in clock..(clock + 1) :
          \E t_store \in t_hash..(t_hash + 1) :
             /\ Recorded(out.response, request.agent_id, request.action,
                         request.correlation_id, t_hash, t_store)
             /\ call' = [kind |-> "returned", request |-> request,
                         response |-> Finalized(out.response, chain'[Len(chain')]),
                         visited |-> out.visited]
       /\ events' = events \o SinkFired(chain'[Len(chain')])
                           \o Notified(Finalized(out.response, chain'[Len(chain')]))
       /\ execution_count' = IF out.authorized THEN execution_count + 1 ELSE execution_count
       /\ UNCHANGED << warrants, threads, hooks, caller >>

\* A check that counts the call before its conditions are evaluated.
CheckRaises_counted(request) ==
    LET out == check_loop(warrants, request, execution_count, 1, CheckLocals)
    IN /\ out.raised
       /\ call' = [kind |-> "raised", request |-> request, visited |-> out.visited]
       /\ execution_count' = execution_count + 1
       /\ UNCHANGED << warrants, chain, previous_hash, clock, threads, hooks, caller, events >>

\* check(request) ending in an exception raised by a condition evaluator:
\* nothing was recorded.
CheckRaises(request) ==
    LET out == check_loop(warrants, request, execution_count, 1, CheckLocals)
    IN /\ out.raised
       /\ call' = [kind |-> "raised", request |-> request, visited |-> out.visited]
       /\ UNCHANGED << warrants, chain, previous_hash, execution_count, clock, threads, hooks, caller, events >>

(***************************************************************************)
(* Spec: the first check call on a freshly constructed engine, for every   *)
(* catalog of at most MaxCatalog warrants and every request.               *)
(***************************************************************************)
Init == \E catalog \in Catalogs : Constructed(catalog) /\ threads = << >>

FirstCheck == \E request \in Requests : Len(chain) = 0 /\ CheckReturns(request)
FailedCheck == \E request \in Requests : Len(chain) = 0 /\ CheckRaises(request)

Next == FirstCheck \/ FailedCheck

Spec == Init /\ [][Next]_vars

(***************************************************************************)
(* SpecHistory: up to MaxChecks check calls in sequence on one engine.     *)
(***************************************************************************)
HistCatalogs == { << W_consent, W_limit >>, << W_old >>, << W_old, W_revoked >> }

HistRequests ==
    { BaseRequest,
      [BaseRequest EXCEPT !.context = Ctx1("amount", IntV(7))],
      [BaseRequest EXCEPT !.action = << "c" >>, !.correlation_id = Some("corr-1")],
      [BaseRequest EXCEPT !.timestamp = DateTime(0, None)] }

InitHistory == \E catalog \in HistCatalogs : Constructed(catalog) /\ threads = << >>

Check == \E request \in HistRequests : Len(chain) < MaxChecks /\ CheckReturns(request)

SpecHistory == InitHistory /\ [][Check]_vars

(***************************************************************************)
(* SpecAudit: up to MaxChecks record calls in sequence on an AuditChain    *)
(* used on its own.                                                        *)
(***************************************************************************)
InitAudit == Constructed(<< >>) /\ threads = << >>

\* The responses recorded: an AUTHORIZED one with a warrant and a condition,
\* a DENIED and a NO_WARRANT one without.
Record ==
    LET responses ==
            { WarrantResponse("AUTHORIZED", Some(<< "w", "1" >>), None,
                              << ConditionResult("consent", TRUE, << "o", "k" >>) >>, None, << >>),
              WarrantResponse("DENIED", None, None, << >>, None, << >>),
              WarrantResponse("NO_WARRANT", None, None, << >>, None, << >>) }
    IN \E response \in responses :
       \E t_hash \in clock..(clock + 1) :
       \E t_store \in t_hash..(t_hash + 1) :
           /\ Len(chain) < MaxChecks
           /\ Recorded(response, "agent", << "a", ".", "b" >>, None, t_hash, t_store)
           /\ events' = events \o SinkFired(chain'[Len(chain')])
           /\ UNCHANGED << warrants, execution_count, call, threads, hooks, caller >>

SpecAudit == InitAudit /\ [][Record]_vars

(***************************************************************************)
(* SpecTamper: record calls in sequence, then one field of one stored      *)
(* record is overwritten from outside (AuditRecord is a plain mutable      *)
(* dataclass and the records of a chain are reachable through the chain).  *)
(* call remembers which field of which record was overwritten.             *)
(***************************************************************************)
TamperedHash == << "sha256", "tampered" >>

\* The values a stored hash is overwritten with.
TamperHashes == {GENESIS_HASH, TamperedHash} \cup {chain[k].record_hash : k \in 1..Len(chain)}

\* The content fields of a record and the values they are overwritten with.
TamperContents ==
    { << "agent_id", "mallory" >>,
      << "warrant_id", Some(<< "w", "9" >>) >>,
      << "action", << "x" >> >>,
      << "decision", "AUTHORIZED" >>,
      << "decision", "DENIED" >>,
      << "conditions_evaluated", << [condition |-> "forged", met |-> TRUE, detail |-> << >>] >> >>,
      << "correlation_id", Some("forged") >>,
      << "timestamp", << "9", "Z" >> >> }

Tampered(field, index) == [kind |-> "tampered", field |-> field, index |-> index]

RecordUntampered == call = NoCall /\ Record

\* record.previous_hash = h
TamperPreviousHash ==
    \E i \in 1..Len(chain) : \E h \in TamperHashes :
        /\ call = NoCall
        /\ h # chain[i].previous_hash
        /\ chain' = [chain EXCEPT ![i].previous_hash = h]
        /\ call' = Tampered("previous_hash", i)
        /\ UNCHANGED << warrants, previous_hash, execution_count, clock, threads, hooks, caller, events >>

\* record.record_hash = h
TamperRecordHash ==
    \E i \in 1..Len(chain) : \E h \in TamperHashes :
        /\ call = NoCall
        /\ h # chain[i].record_hash
        /\ chain' = [chain EXCEPT ![i].record_hash = h]
        /\ call' = Tampered("record_hash", i)
        /\ UNCHANGED << warrants, previous_hash, execution_count, clock, threads, hooks, caller, events >>

\* record.<content field> = value
TamperContent ==
    \E i \in 1..Len(chain) : \E fv \in TamperContents :
        /\ call = NoCall
        /\ fv[2] # chain[i][fv[1]]
        /\ chain' = [chain EXCEPT ![i] = [@ EXCEPT ![fv[1]] = fv[2]]]
        /\ call' = Tampered(fv[1], i)
        /\ UNCHANGED << warrants, previous_hash, execution_count, clock, threads, hooks, caller, events >>

SpecTamper ==
    InitAudit /\ [][RecordUntampered \/ TamperPreviousHash \/ TamperRecordHash \/ TamperContent]_vars

(***************************************************************************)
(* SpecEval: one structured constraint, evaluated on its own by            *)
(* evaluate_constraint against a context, or inside check as the only      *)
(* constraint of the only warrant of an engine.                            *)
(***************************************************************************)
Op_regex == << "r", "e", "g", "e", "x" >>

EvalContexts ==
    {EmptyContext, Ctx1("other", IntV(5))}
    \cup {Ctx1("amount", v) :
            v \in {IntV(0), IntV(3), IntV(5), IntV(7), StrV(<< >>), StrV(<< "x" >>),
                   StrV(<< "x", "y" >>), BoolV(TRUE), BoolV(FALSE), NoneV,
                   ListV(<< >>), ListV(<< IntV(3) >>)}}

\* The constraints are those on "amount" with each operator of the fixed
\* set, an operator outside it ("regex") and an upper-case spelling ("EQ"),
\* against an integer, a string, a boolean and a list.
InitEval ==
    LET operators == {Op_eq, Op_ne, Op_in, Op_not_in, Op_gt, Op_gte, Op_lt, Op_lte,
                      Op_contains, Op_required, Op_regex, << "E", "Q" >>}
        values == {IntV(5), StrV(<< "x" >>), BoolV(TRUE), ListV(<< IntV(3), StrV(<< "x" >>) >>)}
    IN \E op \in operators : \E v \in values :
           /\ Constructed(<< [Plain(<< "w", "e" >>) EXCEPT
                                 !.context_constraints = << Constraint("amount", op, v) >>] >>)
           /\ threads = << >>

\* evaluate_constraint(constraint, context), called directly
Evaluate ==
    \E context \in EvalContexts :
        /\ call = NoCall
        /\ call' = [kind |-> "evaluated",
                    constraint |-> warrants[1].context_constraints[1],
                    context |-> context,
                    result |-> evaluate_constraint(warrants[1].context_constraints[1], context)]
        /\ UNCHANGED << warrants, chain, previous_hash, execution_count, clock, threads, hooks, caller, events >>

EvalCheck ==
    \E context \in EvalContexts :
        call = NoCall /\ CheckReturns([BaseRequest EXCEPT !.context = context])

EvalCheckFails ==
    \E context \in EvalContexts :
        call = NoCall /\ CheckRaises([BaseRequest EXCEPT !.context = context])

SpecEval == InitEval /\ [][Evaluate \/ EvalCheck \/ EvalCheckFails]_vars

(***************************************************************************)
(* SpecElevation: one check call on an engine with a history: up to one    *)
(* check that did not authorize followed by up to MaxAuthorized checks     *)
(* that did, all made while the clock read 0.                              *)
(***************************************************************************)
ElevRequests ==
    { BaseRequest,
      [BaseRequest EXCEPT !.context = Ctx1("amount", IntV(7))],
      [BaseRequest EXCEPT !.action = << "c" >>],
      [BaseRequest EXCEPT !.timestamp = DateTime(0, None)] }

\* The engine after the check calls requests[i..], from the engine st.
RECURSIVE Replayed(_, _, _, _)
Replayed(catalog, requests, i, st) ==
    IF i > Len(requests) THEN st
    ELSE LET out == check_loop(catalog, requests[i], st.execution_count, 1, CheckLocals)
             record == AuditRecord(out.response, requests[i].agent_id, requests[i].action,
                                   requests[i].correlation_id, st.previous_hash, 0, 0)
         IN Replayed(catalog, requests, i + 1,
                     [chain |-> Append(st.chain, record),
                      previous_hash |-> record.record_hash,
                      execution_count |->
                          IF out.authorized THEN st.execution_count + 1 ELSE st.execution_count])

InitElevation ==
    \E catalog \in { << W_limit >>, << W_revoked, W_limit >> } : \E n \in 0..MaxAuthorized : \E d \in 0..1 :
        LET history == [k \in 1..(d + n) |->
                           IF k <= d THEN [BaseRequest EXCEPT !.action = << "c" >>]
                           ELSE BaseRequest]
            st == Replayed(catalog, history, 1,
                           [chain |-> << >>, previous_hash |-> GENESIS_HASH,
                            execution_count |-> 0])
        IN /\ warrants = catalog
           /\ chain = st.chain
           /\ previous_hash = st.previous_hash
           /\ execution_count = st.execution_count
           /\ clock = 0
           /\ call = NoCall
           /\ threads = << >>
           /\ hooks = {}
           /\ caller = << warrants >>
           /\ events = << >>

NextCheck == \E request \in ElevRequests : call = NoCall /\ CheckReturns(request)

SpecElevation == InitElevation /\ [][NextCheck]_vars

(***************************************************************************)
(* SpecHooks: up to MaxHookChecks check calls in sequence on an engine     *)
(* constructed with any subset of the four event hooks.  (The engine       *)
(* constructs its AuditChain without a sink.)                              *)
(***************************************************************************)
EngineHooks == {"on_decision", "on_authorized", "on_denied", "on_escalate"}

InitHooks ==
    \E catalog \in HistCatalogs : \E callbacks \in SUBSET EngineHooks :
        ConstructedWith(catalog, callbacks) /\ threads = << >>

HookCheck == \E request \in HistRequests : Len(chain) < MaxHookChecks /\ CheckReturns(request)

SpecHooks == InitHooks /\ [][HookCheck]_vars

(***************************************************************************)
(* SpecSink: up to MaxChecks record calls in sequence on an AuditChain     *)
(* constructed with or without a sink.                                     *)
(***************************************************************************)
InitSink ==
    \E callbacks \in {{}, {"on_record"}} :
        ConstructedWith(<< >>, callbacks) /\ threads = << >>

SpecSink == InitSink /\ [][Record]_vars

(***************************************************************************)
(* SpecMatch: action_matches called on its own, for every pattern of at    *)
(* most MaxPatternLen characters and every action of at most MaxActionLen. *)
(***************************************************************************)
\* The patterns are the strings of at most MaxPatternLen characters over
\* a, * and the dot; the actions those of at most MaxActionLen characters
\* over a, b and the dot.
InitMatch ==
    LET StringsUpTo(alphabet, n) == UNION {[1..k -> alphabet] : k \in 0..n}
    IN \E pattern \in StringsUpTo({"a", "*", "."}, MaxPatternLen) :
       \E action \in StringsUpTo({"a", "b", "."}, MaxActionLen) :
           /\ warrants = << >>
           /\ chain = << >>
           /\ previous_hash = GENESIS_HASH
           /\ execution_count = 0
           /\ clock = 0
           /\ call = [kind |-> "matching", pattern |-> pattern, action |-> action]
           /\ threads = << >>
           /\ hooks = {}
           /\ caller = << << >> >>
           /\ events = << >>

\* action_matches(pattern, action)
Match ==
    /\ call.kind = "matching"
    /\ call' = [kind |-> "matched", pattern |-> call.pattern, action |-> call.action,
                result |-> action_matches(call.pattern, call.action)]
    /\ UNCHANGED << warrants, chain, previous_hash, execution_count, clock, threads, hooks, caller, events >>

SpecMatch == InitMatch /\ [][Match]_vars

(***************************************************************************)
(* SpecLegacy: the first check call on an engine whose first warrant       *)
(* carries legacy conditions of one kind (a threshold, a per-role payout   *)
(* limit, a required flag, an allow-list, an exact match, a number), alone *)
(* or followed by a warrant without conditions, for requests that differ   *)
(* in role and context.                                                    *)
(***************************************************************************)
InitLegacy ==
    LET required == StrV(<< "r", "e", "q", "u", "i", "r", "e", "d" >>)
        With(id, conditions) == [Plain(id) EXCEPT !.conditions = conditions]
        first ==
            << With(<< "l", "1" >>, << Condition("escalation_threshold", IntV(5)) >>),
               With(<< "l", "2" >>, << Condition("single_trade_limit", StrV(<< "5" >>)) >>),
               With(<< "l", "3" >>, << Condition("tier", StrV(<< "g", "o", "l", "d" >>)) >>),
               With(<< "l", "4" >>, << Condition("tier", IntV(3)) >>),
               With(<< "l", "5" >>, << Condition("consent", BoolV(TRUE)) >>),
               With(<< "l", "6" >>, << Condition("consent", required) >>),
               With(<< "l", "7" >>, << Condition("region", ListV(<< StrV(<< "e", "u" >>), StrV(<< "u", "s" >>) >>)) >>),
               With(<< "l", "8" >>, << Condition("payout_within_authority",
                                                 DictV([r \in {<< "r", "1" >>} |-> IntV(5)])) >>),
               [With(<< "l", "9" >>, << Condition("single_trade_limit", IntV(1)),
                                        Condition("consent", required) >>)
                   EXCEPT !.context_constraints = << Constraint("amount", Op_lte, IntV(5)) >>],
               With(<< "e", "x", "p", "i", "r", "e", "d", "-", "q", "2" >>,
                    << Condition("consent", required) >>) >>
        rest == << << >>, << W_plain >>, << W_old >> >>
    IN \E i \in 1..Len(first) : \E j \in 1..Len(rest) :
           Constructed(<< first[i] >> \o rest[j]) /\ threads = << >>

\* check(request), for the base request with another role and context
LegacyCheck ==
    LET both(other) == [k \in {"amount", other} |-> IF k = "amount" THEN IntV(3) ELSE IntV(7)]
        contexts ==
            << EmptyContext,
               Ctx1("amount", IntV(3)), Ctx1("amount", IntV(5)), Ctx1("amount", IntV(7)),
               Ctx1("trade_amount", IntV(7)), Ctx1("payout_amount", IntV(7)),
               both("trade_amount"), both("payout_amount"),
               Ctx1("tier", StrV(<< "g", "o", "l", "d" >>)),
               Ctx1("tier", StrV(<< "s", "i", "l", "v", "e", "r" >>)),
               Ctx1("tier", StrV(<< "e", "x", "c", "e", "e", "d", "s" >>)),
               Ctx1("tier", StrV(<< "3" >>)), Ctx1("tier", IntV(3)), Ctx1("tier", IntV(4)),
               Ctx1("consent", BoolV(TRUE)), Ctx1("consent", BoolV(FALSE)),
               Ctx1("consent", IntV(0)), Ctx1("consent", StrV(<< "n", "o" >>)),
               Ctx1("region", StrV(<< "e", "u" >>)),
               Ctx1("region", StrV(<< "a", "s", "i", "a" >>)),
               Ctx1("region", StrV(<< "t", "h", "r", "e", "s", "h", "o", "l", "d" >>)) >>
    IN \E i \in 1..Len(contexts) : \E role \in {<< "r", "1" >>, << "r", "2" >>} :
           /\ call = NoCall
           /\ CheckReturns([BaseRequest EXCEPT !.context = contexts[i], !.role = role])

SpecLegacy == InitLegacy /\ [][LegacyCheck]_vars

(***************************************************************************)
(* SpecFaults: up to MaxFaultChecks check calls in sequence on one engine, *)
(* each returning or ending in an exception: one raised by a condition     *)
(* evaluator, before anything is recorded, or one raised by a callback,    *)
(* after the record is appended.  (A sink is on the engine's chain only    *)
(* when the caller has put one on the chain that the audit property        *)
(* returns.)                                                               *)
(***************************************************************************)
\* The catalogs hold a warrant with a constraint of unknown operator: on
\* its own, before or after a warrant that authorizes, after one that
\* escalates, and filtered out by status, action, role, data type or time;
\* and a warrant that denies.
InitFaults ==
    LET regex(id) == [W_regex EXCEPT !.id = id]
        catalogs ==
            << << W_regex >>, << W_regex, W_plain >>, << W_plain, W_regex >>,
               << W_limit, W_regex >>,
               << [regex(<< "f", "1" >>) EXCEPT !.status = Some("revoked")] >>,
               << [regex(<< "f", "2" >>) EXCEPT !.actions = << << "c" >> >>] >>,
               << [regex(<< "f", "3" >>) EXCEPT !.roles = << << "r", "2" >> >>] >>,
               << [regex(<< "f", "4" >>) EXCEPT !.data_types = << << "d", "2" >> >>] >>,
               << [regex(<< "f", "5" >>) EXCEPT !.valid_from = DateTime(0, None),
                                                !.valid_until = DateTime(0, None)] >>,
               << W_consent >> >>
        callbacks == << {}, EngineHooks, EngineHooks \cup {"on_record"} >>
    IN \E i \in 1..Len(catalogs) : \E k \in 1..Len(callbacks) :
           ConstructedWith(catalogs[i], callbacks[k]) /\ threads = << >>

\* The requests: the base request, one with an amount above the limit, one
\* whose action only the warrant for "c" covers.
FaultRequests ==
    << BaseRequest,
       [BaseRequest EXCEPT !.context = Ctx1("amount", IntV(7))],
       [BaseRequest EXCEPT !.action = << "c" >>, !.context = Ctx1("amount", IntV(7))] >>

\* check(request), every callback returning
FaultCheck ==
    \E i \in 1..Len(FaultRequests) :
        Len(chain) < MaxFaultChecks /\ CheckReturns(FaultRequests[i])

\* check(request), a condition evaluator raising
AbortedCheck ==
    \E i \in 1..Len(FaultRequests) :
        Len(chain) < MaxFaultChecks /\ CheckRaises(FaultRequests[i])

\* The event hooks, handed a response that no record stands behind.
CallbacksBefore(response) ==
    LET names == << "on_decision" >>
                 \o (IF response.decision = "AUTHORIZED" THEN << "on_authorized" >>
                     ELSE IF response.decision = "DENIED" THEN << "on_denied" >>
                     ELSE IF response.decision = "ESCALATE" THEN << "on_escalate" >>
                     ELSE << >>)
        invoked == SelectSeq(names, LAMBDA h : h \in hooks)
    IN [n \in 1..Len(invoked) |->
           [hook |-> invoked[n], arg |-> response, seen_chain |-> chain,
            seen_last_hash |-> previous_hash]]

\* A check that invokes its callbacks before it counts and records.
CallbackRaises_before_record ==
    \E i \in 1..Len(FaultRequests) : \E k \in 1..3 :
        LET request == FaultRequests[i]
            out == check_loop(warrants, request, execution_count, 1, CheckLocals)
            fired == CallbacksBefore(out.response)
        IN /\ Len(chain) < MaxFaultChecks
           /\ ~out.raised
           /\ k <= Len(fired)
           /\ events' = events \o SubSeq(fired, 1, k)
           /\ call' = [kind |-> "callback_raised", request |-> request,
                       visited |-> out.visited, by |-> fired[k].hook,
                       decision |-> out.response.decision]
           /\ UNCHANGED << warrants, chain, previous_hash, execution_count, clock, threads, hooks, caller >>

\* check(request), the k-th callback it invokes raising: the counter
\* increment of the AUTHORIZED branch and AuditChain.record's append and
\* _previous_hash assignment are done; the sink is invoked inside record,
\* then the event hooks in the order of _record_and_notify, up to the one
\* that raises.
CallbackRaises ==
    \E i \in 1..Len(FaultRequests) : \E k \in 1..3 :
        LET request == FaultRequests[i]
            out == check_loop(warrants, request, execution_count, 1, CheckLocals)
        IN /\ Len(chain) < MaxFaultChecks
           /\ ~out.raised
           /\ \E t_hash \in clock..(clock + 1) :
              \E t_store \in t_hash..(t_hash + 1) :
                 /\ Recorded(out.response, request.agent_id, request.action,
                             request.correlation_id, t_hash, t_store)
                 /\ LET record == chain'[Len(chain')]
                        fired == SinkFired(record) \o Notified(Finalized(out.response, record))
                    IN /\ k <= Len(fired)
                       /\ events' = events \o SubSeq(fired, 1, k)
                       /\ call' = [kind |-> "callback_raised", request |-> request,
                                   visited |-> out.visited, by |-> fired[k].hook,
                                   decision |-> out.response.decision]
           /\ execution_count' = IF out.authorized THEN execution_count + 1 ELSE execution_count
           /\ UNCHANGED << warrants, threads, hooks, caller >>

SpecFaults == InitFaults /\ [][FaultCheck \/ AbortedCheck \/ CallbackRaises]_vars

(***************************************************************************)
(* SpecCatalog: up to MaxHookChecks check calls in sequence on one        *)
(* engine, while the caller reads the warrants property and adds to and    *)
(* removes from the lists it holds: the one it passed to the constructor   *)
(* and the one the property last returned.                                 *)
(***************************************************************************)
\* A constructor called with an empty list, or with two warrants.
InitCatalog ==
    \E catalog \in {<< >>, << W_consent, W_limit >>} : Constructed(catalog) /\ threads = << >>

\* The warrants property: return list(self._warrants), a new list.
GetWarrants ==
    /\ caller' = << caller[1], warrants >>
    /\ UNCHANGED << warrants, chain, previous_hash, execution_count, clock, call, threads, hooks, events >>

\* The caller changes the list it passed to the constructor and the engine
\* kept, as if __init__ had stored the list itself.
CallerMutates_shared ==
    \E n \in 1..Len(caller) :
    \E changed \in {Append(caller[n], W_plain), SubSeq(caller[n], 1, Len(caller[n]) - 1)} :
        /\ changed # caller[n]
        /\ Len(changed) <= MaxListLen
        /\ caller' = [caller EXCEPT ![n] = changed]
        /\ warrants' = IF n = 1 THEN changed ELSE warrants
        /\ UNCHANGED << chain, previous_hash, execution_count, clock, call, threads, hooks, events >>

\* The caller appends a warrant to, or removes the last one from, a list
\* it holds.  __init__ stored list(warrants), or a new empty
\* list, and the property returned list(self._warrants): none of the
\* caller's lists is the engine's.
CallerMutates ==
    \E n \in 1..Len(caller) :
    \E changed \in {Append(caller[n], W_plain), SubSeq(caller[n], 1, Len(caller[n]) - 1)} :
        /\ changed # caller[n]
        /\ Len(changed) <= MaxListLen
        /\ caller' = [caller EXCEPT ![n] = changed]
        /\ UNCHANGED << warrants, chain, previous_hash, execution_count, clock, call, threads, hooks, events >>

\* check(request), without and with an amount
CatalogCheck ==
    \E request \in {BaseRequest, [BaseRequest EXCEPT !.context = Ctx1("amount", IntV(7))]} :
        Len(chain) < MaxHookChecks /\ CheckReturns(request)

SpecCatalog == InitCatalog /\ [][CatalogCheck \/ GetWarrants \/ CallerMutates]_vars

(***************************************************************************)
(* SpecConc: NThreads threads, each making one check call on one shared    *)
(* engine.  Neither WarrantEngine nor AuditChain takes a lock, so the      *)
(* threads interleave between the statements that read and write the       *)
(* shared fields: the load and the store of "_execution_count += 1", the   *)
(* two later reads of the counter, the reads of _previous_hash for the     *)
(* hash and for the record, the append, and the store of _previous_hash.   *)
(***************************************************************************)
Threads == 1..NThreads

Idle == [pc |-> "idle"]

InitConc == Constructed(<< W_plain >>) /\ threads = [t \in Threads |-> Idle]

\* check is entered and its loop runs (it reads only the catalog).
T_Call(t) ==
    /\ threads[t].pc = "idle"
    /\ \E request \in { BaseRequest, [BaseRequest EXCEPT !.action = << "c" >>] } :
         LET out == check_loop(warrants, request, execution_count, 1, CheckLocals)
         IN /\ ~out.raised
            /\ threads' = [threads EXCEPT ![t] =
                              [pc |-> IF out.authorized THEN "load" ELSE "hash",
                               request |-> request, response |-> out.response,
                               authorized |-> out.authorized]]
    /\ UNCHANGED << warrants, chain, previous_hash, execution_count, clock, call, hooks, caller, events >>

\* self._execution_count += 1: the load ...
T_Load(t) ==
    /\ threads[t].pc = "load"
    /\ threads' = [threads EXCEPT ![t] = [pc |-> "store", loaded |-> execution_count] @@ @]
    /\ UNCHANGED << warrants, chain, previous_hash, execution_count, clock, call, hooks, caller, events >>

\* ... and the store.
T_Store(t) ==
    /\ threads[t].pc = "store"
    /\ execution_count' = threads[t].loaded + 1
    /\ threads' = [threads EXCEPT ![t].pc = "test10"]
    /\ UNCHANGED << warrants, chain, previous_hash, clock, call, hooks, caller, events >>

\* if self._execution_count >= 10
T_Test10(t) ==
    /\ threads[t].pc = "test10"
    /\ threads' = [threads EXCEPT ![t] = [pc |-> "test50", at_10 |-> execution_count] @@ @]
    /\ UNCHANGED << warrants, chain, previous_hash, execution_count, clock, call, hooks, caller, events >>

\* if self._execution_count >= 50, and the response is built
T_Test50(t) ==
    /\ threads[t].pc = "test50"
    /\ threads' = [threads EXCEPT ![t] =
                      [pc |-> "hash", at_50 |-> execution_count,
                       response |-> [threads[t].response EXCEPT !.trust_elevation =
                                        elevation_of(threads[t].at_10, execution_count)]] @@ @]
    /\ UNCHANGED << warrants, chain, previous_hash, execution_count, clock, call, hooks, caller, events >>

\* record: the content is stamped and hashed with _previous_hash
T_Hash(t) ==
    /\ threads[t].pc = "hash"
    /\ \E now \in clock..(clock + 1) :
         /\ clock' = now
         /\ threads' = [threads EXCEPT ![t] =
                           [pc |-> "build", t_hash |-> now, prev_hashed |-> previous_hash] @@ @]
    /\ UNCHANGED << warrants, chain, previous_hash, execution_count, call, hooks, caller, events >>

\* record: the AuditRecord is built, reading the clock and _previous_hash again
T_Build(t) ==
    /\ threads[t].pc = "build"
    /\ \E now \in clock..(clock + 1) :
         /\ clock' = now
         /\ threads' = [threads EXCEPT ![t] =
                [pc |-> "append",
                 record |-> AuditRecordOf(threads[t].response, threads[t].request.agent_id,
                                          threads[t].request.action,
                                          threads[t].request.correlation_id,
                                          threads[t].prev_hashed, previous_hash,
                                          threads[t].t_hash, now)] @@ @]
    /\ UNCHANGED << warrants, chain, previous_hash, execution_count, call, hooks, caller, events >>

\* self._chain.append(record)
T_Append(t) ==
    /\ threads[t].pc = "append"
    /\ chain' = Append(chain, threads[t].record)
    /\ threads' = [threads EXCEPT ![t].pc = "setprev"]
    /\ UNCHANGED << warrants, previous_hash, execution_count, clock, call, hooks, caller, events >>

\* self._previous_hash = record_hash
T_SetPrev(t) ==
    /\ threads[t].pc = "setprev"
    /\ previous_hash' = threads[t].record.record_hash
    /\ threads' = [threads EXCEPT ![t].pc = "return"]
    /\ events' = events \o SinkFired(threads[t].record)
    /\ UNCHANGED << warrants, chain, execution_count, clock, call, hooks, caller >>

\* _record_and_notify copies the hashes into the response; check returns.
T_Return(t) ==
    /\ threads[t].pc = "return"
    /\ threads' = [threads EXCEPT ![t] =
                      [pc |-> "done",
                       response |-> Finalized(threads[t].response, threads[t].record)] @@ @]
    /\ events' = events \o Notified(Finalized(threads[t].response, threads[t].record))
    /\ UNCHANGED << warrants, chain, previous_hash, execution_count, clock, call, hooks, caller >>

NextConc ==
    \E t \in Threads :
        \/ T_Call(t)
        \/ T_Load(t)
        \/ T_Store(t)
        \/ T_Test10(t)
        \/ T_Test50(t)
        \/ T_Hash(t)
        \/ T_Build(t)
        \/ T_Append(t)
        \/ T_SetPrev(t)
        \/ T_Return(t)

SpecConc == InitConc /\ [][NextConc]_vars

(***************************************************************************)
(* The gates of section 4.4, stated on a warrant and a request.            *)
(***************************************************************************)
Returned == call.kind = "returned"

\* Status gate: the warrant is neither revoked nor suspended.
GateStatus(w) == w.status \notin {Some("revoked"), Some("suspended")}

\* Action gate: some action pattern of the warrant matches the action.
GateAction(w, req) == \E k \in 1..Len(w.actions) : action_matches(w.actions[k], req.action)

\* Role gate and data-type gate: an empty request value, an empty warrant
\* list, or membership.
GateRole(w, req) ==
    req.role = << >> \/ w.roles = << >> \/ \E k \in 1..Len(w.roles) : w.roles[k] = req.role

GateData(w, req) ==
    \/ req.data_type = << >>
    \/ w.data_types = << >>
    \/ \E k \in 1..Len(w.data_types) : w.data_types[k] = req.data_type

\* Temporal gate: the request time, time-zone normalized as the engine
\* normalizes it (the wall-clock reading), lies in the inclusive window.
GateTime(w, req) ==
    w.valid_from.wall <= req.timestamp.wall /\ req.timestamp.wall <= w.valid_until.wall

(***************************************************************************)
(* C1.  If check returns AUTHORIZED with warrant_id w, then w is in the    *)
(* catalog, w is not revoked or suspended, one of w's action patterns      *)
(* matches the request action, the role and data-type gates pass for w,    *)
(* the request time lies in [w.valid_from, w.valid_until], and every entry *)
(* of conditions_evaluated has met = true.                                 *)
(***************************************************************************)
C1_AuthorizedIsSound ==
    (Returned /\ call.response.decision = "AUTHORIZED") =>
        /\ \E i \in 1..Len(warrants) :
              LET w == warrants[i]
              IN /\ call.response.warrant_id = Some(w.id)
                 /\ GateStatus(w)
                 /\ GateAction(w, call.request)
                 /\ GateRole(w, call.request)
                 /\ GateData(w, call.request)
                 /\ GateTime(w, call.request)
        /\ \A k \in 1..Len(call.response.conditions_evaluated) :
              call.response.conditions_evaluated[k].met

\* An AUTHORIZED response of the second warrant of a catalog, with
\* evaluated conditions, for a request that names a role and a data type.
C1_Witness ==
    /\ Returned /\ call.response.decision = "AUTHORIZED"
    /\ call.visited = 2
    /\ Len(call.response.conditions_evaluated) > 0
    /\ call.request.role # << >> /\ call.request.data_type # << >>

(***************************************************************************)
(* C2.  Every check call that returns has appended exactly one record to   *)
(* the audit chain before returning: the response's audit_hash is that     *)
(* record's record_hash and the chain's last_hash, its previous_hash is    *)
(* that record's previous_hash, and the record carries the request's       *)
(* agent_id, action and correlation_id and the response's decision and     *)
(* warrant_id.                                                             *)
(***************************************************************************)
C2_ReturnedCheckIsRecorded ==
    [][call'.kind = "returned" =>
         /\ Len(chain') = Len(chain) + 1
         /\ SubSeq(chain', 1, Len(chain)) = chain
         /\ LET record == chain'[Len(chain')]
                response == call'.response
                request == call'.request
            IN /\ response.audit_hash = record.record_hash
               /\ response.audit_hash = previous_hash'
               /\ response.previous_hash = record.previous_hash
               /\ response.previous_hash = previous_hash
               /\ record.agent_id = request.agent_id
               /\ record.action = request.action
               /\ record.correlation_id = request.correlation_id
               /\ record.decision = response.decision
               /\ record.warrant_id = response.warrant_id]_vars

\* A third check on one engine, with a correlation id, after an ESCALATE
\* and an EXPIRED decision.
C2_Witness ==
    /\ Returned /\ Len(chain) = 3
    /\ chain[1].decision = "ESCALATE"
    /\ chain[2].decision = "EXPIRED"
    /\ call.response.decision = "NO_WARRANT"
    /\ call.request.correlation_id # None
    /\ call.response.audit_hash = chain[3].record_hash

(***************************************************************************)
(* C3.  After any sequence of N >= 0 record calls verify_chain() is true:  *)
(* the first record's previous_hash is the genesis hash, every later       *)
(* record's previous_hash is the record_hash of the record before it, and  *)
(* each append leaves the earlier records and their order unchanged.       *)
(***************************************************************************)
C3_ChainVerifies ==
    /\ [](/\ verify_chain(chain)
          /\ Len(chain) > 0 => chain[1].previous_hash = GENESIS_HASH
          /\ \A i \in 2..Len(chain) : chain[i].previous_hash = chain[i - 1].record_hash)
    /\ [][chain' # chain =>
             /\ Len(chain') = Len(chain) + 1
             /\ SubSeq(chain', 1, Len(chain)) = chain]_vars

\* Three records of different decisions on one chain.
C3_Witness ==
    /\ Len(chain) = 3
    /\ chain[1].decision # chain[2].decision
    /\ chain[2].decision # chain[3].decision
    /\ chain[3].previous_hash = chain[2].record_hash


(***************************************************************************)
(* Concurrent calls.                                                       *)
(***************************************************************************)
\* Every thread's check call has returned.
AllDone == \A t \in Threads : threads[t].pc = "done"

(***************************************************************************)
(* C4.  When check calls on one shared engine run concurrently, the append *)
(* behaves as a single critical section: once all calls have finished, no  *)
(* two records of the chain have the same previous_hash, last_hash is the  *)
(* record_hash of the last list element, and verify_chain() is true.       *)
(***************************************************************************)
C4_AppendIsCriticalSection ==
    AllDone =>
        /\ \A i, j \in 1..Len(chain) :
              i # j => chain[i].previous_hash # chain[j].previous_hash
        /\ Len(chain) > 0 => previous_hash = chain[Len(chain)].record_hash
        /\ verify_chain(chain)

(***************************************************************************)
(* C5.  When check calls that resolve to AUTHORIZED run concurrently on    *)
(* one shared engine, the counter's final value is the number of           *)
(* AUTHORIZED decisions returned, and the trust elevation of each response *)
(* is the one of the counter value that call's own increment produced.     *)
(***************************************************************************)
C5_CounterIsRaceFree ==
    AllDone =>
        LET authorized == {t \in Threads : threads[t].response.decision = "AUTHORIZED"}
        IN /\ execution_count = Cardinality(authorized)
           /\ \A t \in authorized :
                 threads[t].response.trust_elevation = elevation(threads[t].loaded + 1)

(***************************************************************************)
(* The gates of the per-warrant evaluation, as the specification words     *)
(* them, for the claims about which warrant decides.                       *)
(***************************************************************************)
\* The warrant passes the status, action, role, data-type and temporal
\* gates, so its conditions are evaluated.
ReachesConditionGate(w, req) ==
    /\ GateStatus(w)
    /\ GateAction(w, req)
    /\ GateRole(w, req)
    /\ GateData(w, req)
    /\ GateTime(w, req)

\* The warrant passes the action, role and data-type gates but the request
\* time lies outside its validity window.
FailsTemporalGate(w, req) ==
    /\ GateStatus(w)
    /\ GateAction(w, req)
    /\ GateRole(w, req)
    /\ GateData(w, req)
    /\ ~GateTime(w, req)

\* A failed condition whose detail text contains "escalation", "threshold"
\* or "exceeds", case-insensitively.
EscalationTriggering(c) ==
    /\ ~c.met
    /\ \/ Contains(Lower(c.detail), << "e", "s", "c", "a", "l", "a", "t", "i", "o", "n" >>)
       \/ Contains(Lower(c.detail), << "t", "h", "r", "e", "s", "h", "o", "l", "d" >>)
       \/ Contains(Lower(c.detail), << "e", "x", "c", "e", "e", "d", "s" >>)

\* The warrant reaches the condition gate and escalates there.
Escalates(w, req) ==
    /\ ReachesConditionGate(w, req)
    /\ LET conditions == evaluate_conditions(w, req)
       IN /\ ~conditions.raised
          /\ \E k \in 1..Len(conditions.res) : EscalationTriggering(conditions.res[k])

\* The warrant reaches the condition gate and every condition is met.
PassesConditionGate(w, req) ==
    /\ ReachesConditionGate(w, req)
    /\ LET conditions == evaluate_conditions(w, req)
       IN /\ ~conditions.raised
          /\ \A k \in 1..Len(conditions.res) : conditions.res[k].met

\* Capability gate: an empty allowlist, or a "__capability" entry of the
\* request context whose name and version both equal those of one
\* allowlisted entry.
GateCapability(w, req) ==
    \/ w.allowed_capabilities = << >>
    \/ /\ "__capability" \in DOMAIN req.context
       /\ req.context["__capability"].t = "dict"
       /\ LET cap == req.context["__capability"].v
          IN /\ {"name", "version"} \subseteq DOMAIN cap
             /\ \E k \in 1..Len(w.allowed_capabilities) :
                   /\ w.allowed_capabilities[k].name = cap.name
                   /\ w.allowed_capabilities[k].version = cap.version

\* The warrant passes all gates.
PassesAllGates(w, req) == PassesConditionGate(w, req) /\ GateCapability(w, req)

\* The deny reason "warrant:<id>:<kind>" spelled out.
ReasonOf(w, kind) == << "w", "a", "r", "r", "a", "n", "t", ":" >> \o w.id \o << ":" >> \o kind

R_revoked == << "r", "e", "v", "o", "k", "e", "d" >>
R_suspended == << "s", "u", "s", "p", "e", "n", "d", "e", "d" >>
R_expired == << "e", "x", "p", "i", "r", "e", "d" >>
R_capability_not_allowed == << "c", "a", "p", "a", "b", "i", "l", "i", "t", "y", "_", "n", "o", "t", "_", "a", "l", "l", "o", "w", "e", "d" >>

(***************************************************************************)
(* C6.  If the first warrant in catalog order that escalates at the        *)
(* condition gate precedes every warrant that would pass all gates, check  *)
(* returns ESCALATE with that warrant's id and evaluates no later warrant; *)
(* and a check that stops before the end of the catalog without            *)
(* authorizing has escalated.                                              *)
(***************************************************************************)
C6_EscalationShortCircuits ==
    Returned =>
        /\ \A e \in 1..Len(warrants) :
              ( /\ Escalates(warrants[e], call.request)
                /\ \A j \in 1..(e - 1) : ~Escalates(warrants[j], call.request)
                /\ \A j \in 1..Len(warrants) :
                      PassesAllGates(warrants[j], call.request) => e < j )
              => /\ call.response.decision = "ESCALATE"
                 /\ call.response.warrant_id = Some(warrants[e].id)
                 /\ call.visited = e
        /\ (call.visited < Len(warrants) /\ call.response.decision # "AUTHORIZED")
              => call.response.decision = "ESCALATE"

(***************************************************************************)
(* C7.  When check returns AUTHORIZED, warrant_id is the id of the first   *)
(* warrant in catalog order that passes all gates; and a warrant that      *)
(* passes all gates authorizes whenever no earlier warrant escalates,      *)
(* whatever gates the earlier warrants fail.                               *)
(***************************************************************************)
C7_FirstPassingWarrantAuthorizes ==
    Returned =>
        /\ call.response.decision = "AUTHORIZED" =>
              \E i \in 1..Len(warrants) :
                 /\ PassesAllGates(warrants[i], call.request)
                 /\ \A j \in 1..(i - 1) : ~PassesAllGates(warrants[j], call.request)
                 /\ call.response.warrant_id = Some(warrants[i].id)
                 /\ call.visited = i
        /\ \A i \in 1..Len(warrants) :
              ( /\ PassesAllGates(warrants[i], call.request)
                /\ \A j \in 1..(i - 1) : ~Escalates(warrants[j], call.request) )
              => call.response.decision = "AUTHORIZED"


\* The revoked / suspended deny reasons among a list of deny reasons.
IsStatusReason(r) ==
    \E i \in 1..Len(warrants) :
        r = ReasonOf(warrants[i], R_revoked) \/ r = ReasonOf(warrants[i], R_suspended)

StatusReasonsIn(deny_reasons) == SelectSeq(deny_reasons, IsStatusReason)

\* The deny reasons the revoked and suspended warrants among the first n
\* of the catalog contribute, in catalog order.
NotInForce(w) == ~GateStatus(w)

StatusReasonsOf(n) ==
    LET skipped == SelectSeq(SubSeq(warrants, 1, n), NotInForce)
    IN [k \in 1..Len(skipped) |->
           ReasonOf(skipped[k],
                    IF skipped[k].status = Some("revoked") THEN R_revoked ELSE R_suspended)]

(***************************************************************************)
(* C8.  A revoked or suspended warrant never authorizes and never          *)
(* escalates: the warrant that decides is neither, each revoked or         *)
(* suspended warrant the loop visits contributes its deny reason (and no   *)
(* other warrant contributes one), and a catalog of one revoked or         *)
(* suspended warrant yields DENIED with that one reason.                   *)
(***************************************************************************)
C8_RevokedOrSuspendedIsSkipped ==
    Returned =>
        /\ call.response.decision \in {"AUTHORIZED", "ESCALATE"} =>
              /\ GateStatus(warrants[call.visited])
              /\ call.response.warrant_id = Some(warrants[call.visited].id)
              /\ \A i \in 1..Len(warrants) :
                    ~GateStatus(warrants[i]) =>
                        call.response.warrant_id # Some(warrants[i].id)
        /\ call.response.decision # "AUTHORIZED" =>
              StatusReasonsIn(call.response.deny_reasons) = StatusReasonsOf(call.visited)
        /\ (Len(warrants) = 1 /\ ~GateStatus(warrants[1])) =>
              /\ call.response.decision = "DENIED"
              /\ call.response.deny_reasons = StatusReasonsOf(1)

\* A DENIED response whose reasons are those of a revoked and of a
\* suspended warrant, in catalog order.
C8_Witness ==
    /\ Returned
    /\ Len(warrants) = 2
    /\ warrants[1].status = Some("revoked")
    /\ warrants[2].status = Some("suspended")
    /\ call.response.decision = "DENIED"
    /\ call.response.deny_reasons =
          << ReasonOf(warrants[1], R_revoked), ReasonOf(warrants[2], R_suspended) >>

(***************************************************************************)
(* C9.  A warrant with a non-empty capability allowlist authorizes only a  *)
(* request whose context has a "__capability" entry matching an            *)
(* allowlisted entry by name and version; for every other request that     *)
(* would otherwise be authorized by it the warrant is skipped with deny    *)
(* reason "warrant:<id>:capability_not_allowed"; a warrant with an empty   *)
(* allowlist never gets that reason.                                       *)
(***************************************************************************)
C9_CapabilityGate ==
    Returned =>
        /\ call.response.decision = "AUTHORIZED" =>
              GateCapability(warrants[call.visited], call.request)
        /\ call.response.decision # "AUTHORIZED" =>
              \A i \in 1..call.visited :
                 ( /\ PassesConditionGate(warrants[i], call.request)
                   /\ ~GateCapability(warrants[i], call.request) )
                 => InSeq(ReasonOf(warrants[i], R_capability_not_allowed),
                          call.response.deny_reasons)
        /\ \A i \in 1..Len(warrants) :
              warrants[i].allowed_capabilities = << >> =>
                 ~InSeq(ReasonOf(warrants[i], R_capability_not_allowed),
                        call.response.deny_reasons)

\* A deny reason that is the expiry reason of a warrant of the catalog.
IsExpiryReason(r) == \E i \in 1..Len(warrants) : r = ReasonOf(warrants[i], R_expired)

(***************************************************************************)
(* C10.  check returns EXPIRED exactly when no warrant authorized or       *)
(* escalated, some warrant failed the temporal gate, and every deny reason *)
(* collected is an expiry reason, whatever the warrants' ids are; the      *)
(* response then carries the id and authority of the last warrant that     *)
(* failed the temporal gate.  With any other deny reason collected, the    *)
(* decision is DENIED.                                                     *)
(***************************************************************************)
C10_ExpiredExactly ==
    Returned =>
        LET undecided == call.response.decision \notin {"AUTHORIZED", "ESCALATE"}
            failed == {i \in 1..Len(warrants) : FailsTemporalGate(warrants[i], call.request)}
            only_expiry == \A k \in 1..Len(call.response.deny_reasons) :
                              IsExpiryReason(call.response.deny_reasons[k])
        IN /\ call.response.decision = "EXPIRED" <=>
                 (undecided /\ failed # {} /\ only_expiry)
           /\ call.response.decision = "EXPIRED" =>
                 \E i \in failed :
                    /\ \A j \in failed : j <= i
                    /\ call.response.warrant_id = Some(warrants[i].id)
                    /\ call.response.authority = Some(WarrantAuthority(warrants[i]))
           /\ (undecided /\ ~only_expiry) => call.response.decision = "DENIED"


\* The warrant matches the request on action, role and data type.
Applicable(w, req) == GateAction(w, req) /\ GateRole(w, req) /\ GateData(w, req)

\* What a NO_WARRANT response carries, and the decision of a check that
\* collected a deny reason without authorizing, escalating or expiring.
C11_Rest ==
    /\ call.response.decision = "NO_WARRANT" =>
          /\ call.response.warrant_id = None
          /\ call.response.authority = None
          /\ call.response.deny_reasons = << >>
    /\ ( /\ Len(call.response.deny_reasons) > 0
         /\ call.response.decision \notin {"AUTHORIZED", "ESCALATE", "EXPIRED"} )
       => call.response.decision = "DENIED"

(***************************************************************************)
(* C11 as stated.  check returns NO_WARRANT exactly when no warrant of the *)
(* catalog matches the request on action, role and data type; warrant_id   *)
(* and authority are then null and deny_reasons empty; a check that        *)
(* collected a deny reason and is neither AUTHORIZED, ESCALATE nor EXPIRED *)
(* is DENIED.                                                              *)
(***************************************************************************)
C11_NoWarrantIffNoneApplicable ==
    Returned =>
        /\ call.response.decision = "NO_WARRANT" <=>
              \A i \in 1..Len(warrants) : ~Applicable(warrants[i], call.request)
        /\ C11_Rest

(***************************************************************************)
(* C11, amended.  check returns NO_WARRANT exactly when every warrant of   *)
(* the catalog is neither revoked nor suspended and fails to match the     *)
(* request on action, role or data type (a revoked or suspended warrant    *)
(* contributes its deny reason before it is matched, and the decision is   *)
(* then DENIED); the rest as stated.                                       *)
(***************************************************************************)
C11_NoWarrantIffNothingCollected ==
    Returned =>
        /\ call.response.decision = "NO_WARRANT" <=>
              \A i \in 1..Len(warrants) :
                 GateStatus(warrants[i]) /\ ~Applicable(warrants[i], call.request)
        /\ C11_Rest

\* NO_WARRANT from a catalog of two warrants in force, neither applicable.
C11_Witness ==
    /\ Returned
    /\ Len(warrants) = 2
    /\ \A i \in 1..2 : GateStatus(warrants[i]) /\ ~Applicable(warrants[i], call.request)
    /\ call.response.decision = "NO_WARRANT"


(***************************************************************************)
(* Tampering with a stored record.                                         *)
(***************************************************************************)
\* One record of a chain that verified has had the given field overwritten.
TamperedField(field) == call.kind = "tampered" /\ call.field = field

ContentFields ==
    {"agent_id", "warrant_id", "action", "decision", "conditions_evaluated",
     "correlation_id", "timestamp"}

(***************************************************************************)
(* C12.  For a chain of N >= 1 records that verifies, changing the stored  *)
(* previous_hash of any one record to a different value makes              *)
(* verify_chain() return false; the answer is a boolean.                   *)
(***************************************************************************)
C12_PreviousHashTamperDetected ==
    /\ verify_chain(chain) \in BOOLEAN
    /\ TamperedField("previous_hash") => verify_chain(chain) = FALSE

\* The previous_hash of the second of three records was overwritten.
C12_Witness ==
    /\ TamperedField("previous_hash")
    /\ Len(chain) = 3
    /\ call.index = 2
    /\ chain[2].previous_hash = TamperedHash
    /\ ~verify_chain(chain)

(***************************************************************************)
(* C13.  For a chain of N >= 1 records that verifies, changing the stored  *)
(* record_hash of any one record to a different value makes verify_chain() *)
(* return false, at every position, the last record included.              *)
(***************************************************************************)
C13_RecordHashTamperDetected ==
    TamperedField("record_hash") => verify_chain(chain) = FALSE

(***************************************************************************)
(* C14.  Modifying the content of a stored record (agent_id, warrant_id,   *)
(* action, decision, conditions_evaluated, correlation_id or timestamp)    *)
(* while leaving its hashes untouched makes verify_chain() return false.   *)
(***************************************************************************)
C14_ContentTamperDetected ==
    (call.kind = "tampered" /\ call.field \in ContentFields) => verify_chain(chain) = FALSE

(***************************************************************************)
(* C15.  In every reachable state of an AuditChain, last_hash is the       *)
(* genesis hash when the chain is empty and otherwise the record_hash of   *)
(* the most recently appended record.                                      *)
(***************************************************************************)
C15_LastHashIsLastRecordHash ==
    previous_hash = IF Len(chain) = 0 THEN GENESIS_HASH ELSE chain[Len(chain)].record_hash

\* Two records appended: last_hash is the second one's hash and no longer
\* the first one's.
C15_Witness ==
    /\ Len(chain) = 2
    /\ previous_hash = chain[2].record_hash
    /\ previous_hash # chain[1].record_hash
    /\ previous_hash # GENESIS_HASH


(***************************************************************************)
(* The constraint evaluator.                                               *)
(***************************************************************************)
\* The fixed set of operators.
FixedOperators ==
    {Op_eq, Op_ne, Op_in, Op_not_in, Op_gt, Op_gte, Op_lt, Op_lte, Op_contains, Op_required}

\* The constraint of the engine's only warrant.
TheConstraint == warrants[1].context_constraints[1]

Evaluated == call.kind = "evaluated"

\* A check call that ended in an exception returned no response and
\* recorded nothing.
Aborted ==
    /\ call.kind = "raised"
    /\ "response" \notin DOMAIN call
    /\ chain = << >>
    /\ previous_hash = GENESIS_HASH
    /\ execution_count = 0

(***************************************************************************)
(* C16 as stated.  Evaluating a structured constraint whose operator is    *)
(* outside the fixed set ends in a fatal error and never in a true/false   *)
(* result, whether or not the field is present in the context; inside      *)
(* check the error propagates and no decision is returned.                 *)
(***************************************************************************)
C16_UnknownOperatorAlwaysFatal ==
    TheConstraint.operator \notin FixedOperators =>
        /\ Evaluated => call.result.raised
        /\ call.kind # "returned"
        /\ call.kind = "raised" => Aborted

(***************************************************************************)
(* C16, amended.  With an operator outside the fixed set, the evaluation   *)
(* ends in a fatal error whenever the constraint's field is present in the *)
(* context, and inside check the error then propagates and no decision is  *)
(* returned; when the field is absent the result is false (no operator     *)
(* runs) and check goes on to a decision.                                  *)
(***************************************************************************)
C16_UnknownOperatorFatalWhenFieldPresent ==
    TheConstraint.operator \notin FixedOperators =>
        /\ Evaluated =>
              IF TheConstraint.field \in DOMAIN call.context
              THEN call.result.raised
              ELSE call.result = Returns(FALSE)
        /\ call.kind = "returned" => TheConstraint.field \notin DOMAIN call.request.context
        /\ call.kind = "raised" =>
              Aborted /\ TheConstraint.field \in DOMAIN call.request.context

\* A check whose warrant carries an unknown operator ended in the error,
\* for a request whose context holds the field.
C16_Witness ==
    /\ TheConstraint.operator = Op_regex
    /\ call.kind = "raised"
    /\ "amount" \in DOMAIN call.request.context
    /\ chain = << >>


(***************************************************************************)
(* Trust elevation.                                                        *)
(***************************************************************************)
\* The number of AUTHORIZED decisions the engine has recorded.
AuthorizedSoFar == Cardinality({i \in 1..Len(chain) : chain[i].decision = "AUTHORIZED"})

\* An eligible elevation to the given tier.
Tier(level) == Some([eligible |-> TRUE, new_level |-> Some(level)])

(***************************************************************************)
(* C17.  The response of the k-th AUTHORIZED decision of an engine carries *)
(* no trust elevation when k < 10, an eligible elevation to tier 1 when    *)
(* 10 <= k < 50 and to tier 2 when k >= 50, whatever else the engine has   *)
(* decided; a response with any other decision carries none.               *)
(***************************************************************************)
C17_ElevationFollowsAuthorizedCount ==
    Returned =>
        IF call.response.decision = "AUTHORIZED"
        THEN LET k == AuthorizedSoFar
             IN /\ execution_count = k
                /\ call.response.trust_elevation =
                      IF k < 10 THEN None ELSE IF k < 50 THEN Tier(1) ELSE Tier(2)
        ELSE call.response.trust_elevation = None

\* The 50th AUTHORIZED decision of an engine that has also decided
\* otherwise: tier 2.
C17_Witness ==
    /\ Returned
    /\ call.response.decision = "AUTHORIZED"
    /\ AuthorizedSoFar = 50
    /\ Len(chain) = 51
    /\ call.response.trust_elevation = Tier(2)


(***************************************************************************)
(* Callbacks.                                                              *)
(***************************************************************************)
\* The hooks a response is due, in order, among the registered ones.
HooksDue(response) ==
    LET specific == CASE response.decision = "AUTHORIZED" -> << "on_authorized" >>
                      [] response.decision = "DENIED" -> << "on_denied" >>
                      [] response.decision = "ESCALATE" -> << "on_escalate" >>
                      [] OTHER -> << >>
        IsRegistered(h) == h \in hooks
    IN SelectSeq(<< "on_decision" >> \o specific, IsRegistered)

(***************************************************************************)
(* C18.  For every check call the hooks fire after the audit record has    *)
(* been appended and the response's audit_hash filled in, on_decision      *)
(* first and then at most one decision-specific hook (on_authorized only   *)
(* for AUTHORIZED, on_denied only for DENIED, on_escalate only for         *)
(* ESCALATE, none for NO_WARRANT and EXPIRED); each registered hook that   *)
(* applies is called exactly once, with the finalized response.            *)
(***************************************************************************)
C18_HooksFireAfterAppendInOrder ==
    [][ call'.kind = "returned" =>
          LET fired == SubSeq(events', Len(events) + 1, Len(events'))
              due == HooksDue(call'.response)
          IN /\ SubSeq(events', 1, Len(events)) = events
             /\ Len(fired) = Len(due)
             /\ \A k \in 1..Len(fired) :
                   /\ fired[k].hook = due[k]
                   /\ fired[k].arg = call'.response
                   /\ fired[k].arg.audit_hash = chain'[Len(chain')].record_hash
                   /\ fired[k].seen_chain = chain'
                   /\ Len(fired[k].seen_chain) = Len(chain) + 1
                   /\ fired[k].seen_last_hash = fired[k].arg.audit_hash ]_vars

\* All four hooks registered: an ESCALATE fired on_decision then
\* on_escalate, and the NO_WARRANT after it fired on_decision alone.
C18_Witness ==
    /\ hooks = {"on_decision", "on_authorized", "on_denied", "on_escalate"}
    /\ Len(chain) = 2
    /\ chain[1].decision = "ESCALATE"
    /\ chain[2].decision = "NO_WARRANT"
    /\ Len(events) = 3
    /\ events[1].hook = "on_decision"
    /\ events[2].hook = "on_escalate"
    /\ events[3].hook = "on_decision"
    /\ events[3].arg = call.response

(***************************************************************************)
(* C19.  The audit sink is invoked exactly once per appended record, in    *)
(* append order, and when it is invoked with record r, r is already the    *)
(* last element of the chain and last_hash already equals r.record_hash.   *)
(***************************************************************************)
C19_SinkSeesAppendedRecord ==
    IF "on_record" \in hooks
    THEN /\ Len(events) = Len(chain)
         /\ \A k \in 1..Len(events) :
               /\ events[k].hook = "on_record"
               /\ events[k].arg = chain[k]
               /\ events[k].seen_chain = SubSeq(chain, 1, k)
               /\ events[k].seen_last_hash = chain[k].record_hash
    ELSE events = << >>

\* Three records appended to a chain with a sink: three invocations.
C19_Witness ==
    /\ "on_record" \in hooks
    /\ Len(chain) = 3
    /\ Len(events) = 3
    /\ events[3].arg = chain[3]
    /\ events[2].seen_last_hash = chain[2].record_hash


\* What check returns for the request on a freshly constructed engine with
\* the same catalog (before the audit hashes are filled in).
OnFreshEngine(request) == check_loop(warrants, request, 0, 1, CheckLocals).response

(***************************************************************************)
(* C20.  The decision, warrant_id and conditions_evaluated that check      *)
(* returns for a request with an explicit timestamp depend on the catalog  *)
(* and the request only, not on the engine's history (chain length,        *)
(* authorized count): they are those a fresh engine returns; audit_hash,   *)
(* previous_hash and trust_elevation may differ.                           *)
(***************************************************************************)
C20_DecisionIndependentOfHistory ==
    Returned =>
        LET fresh == OnFreshEngine(call.request)
        IN /\ call.response.decision = fresh.decision
           /\ call.response.warrant_id = fresh.warrant_id
           /\ call.response.conditions_evaluated = fresh.conditions_evaluated

\* An AUTHORIZED response with evaluated conditions from an engine with
\* more than 50 records: its trust elevation and previous_hash are not
\* those of a fresh engine.
C20_Witness ==
    /\ Returned
    /\ Len(chain) > 50
    /\ execution_count >= 50
    /\ call.response.decision = "AUTHORIZED"
    /\ Len(call.response.conditions_evaluated) > 0
    /\ call.response.trust_elevation # OnFreshEngine(call.request).trust_elevation
    /\ call.response.previous_hash # GENESIS_HASH


(***************************************************************************)
(* The action matcher.                                                     *)
(***************************************************************************)
Matched == call.kind = "matched"

\* The dot-separated segments of the pattern and of the action matched.
PatternSegments == Split(call.pattern)
ActionSegments == Split(call.action)

\* The positions of the "*" segments of the pattern.
StarPositions == {i \in 1..Len(PatternSegments) : PatternSegments[i] = << "*" >>}

\* The number of segments ahead of the first "*" segment.
FirstStar == (CHOOSE i \in StarPositions : \A j \in StarPositions : i <= j) - 1

(***************************************************************************)
(* C21.  For a pattern with no "*" segment, action_matches is true if and  *)
(* only if the two segment sequences are identical: false when the         *)
(* pattern has more segments than the action, false when the action has    *)
(* extra trailing segments.                                                *)
(***************************************************************************)
C21_LiteralPatternMatchesExactly ==
    (Matched /\ StarPositions = {}) =>
        /\ call.result <=>
              /\ Len(PatternSegments) = Len(ActionSegments)
              /\ \A i \in 1..Len(PatternSegments) : PatternSegments[i] = ActionSegments[i]
        /\ Len(PatternSegments) > Len(ActionSegments) => ~call.result
        /\ Len(ActionSegments) > Len(PatternSegments) => ~call.result

\* A literal pattern of one segment is the prefix of a longer action, and
\* does not match it.
C21_Witness ==
    /\ Matched
    /\ StarPositions = {}
    /\ Len(PatternSegments) = 1
    /\ Len(ActionSegments) = 2
    /\ ActionSegments[1] = PatternSegments[1]
    /\ ~call.result

(***************************************************************************)
(* C22.  For a pattern whose first "*" segment is at index k,              *)
(* action_matches is true if and only if the action has at least k         *)
(* segments and its first k segments equal the pattern's; the remaining    *)
(* tail may be empty and the pattern segments after the first "*" are      *)
(* ignored, so "*" matches every action.                                   *)
(***************************************************************************)
C22_WildcardMatchesAnyTail ==
    (Matched /\ StarPositions # {}) =>
        LET k == FirstStar
        IN call.result <=>
              /\ Len(ActionSegments) >= k
              /\ \A i \in 1..k : ActionSegments[i] = PatternSegments[i]

\* "a.*.a" matches the action "a": the tail is empty and the segment after
\* the "*" is ignored.
C22_Witness ==
    /\ Matched
    /\ call.pattern = << "a", ".", "*", ".", "a" >>
    /\ call.action = << "a" >>
    /\ call.result


\* The context values Python takes for false: 0, "", False, None, [].
FalsyValues == {IntV(0), StrV(<< >>), BoolV(FALSE), NoneV, ListV(<< >>)}

(***************************************************************************)
(* C23.  For every operator of the fixed set other than "required", ne and *)
(* not_in included, evaluating a constraint whose field is absent from the *)
(* context returns false and raises no error; for "required" the result is *)
(* the truthiness of the context value: false when the field is absent,    *)
(* false or empty, true otherwise.                                         *)
(***************************************************************************)
C23_MissingFieldIsNotMet ==
    Evaluated =>
        LET c == call.constraint
            absent == c.field \notin DOMAIN call.context
        IN /\ (c.operator \in FixedOperators \ {Op_required} /\ absent) =>
                  call.result = Returns(FALSE)
           /\ c.operator = Op_required =>
                  /\ ~call.result.raised
                  /\ call.result.val <=> (~absent /\ call.context[c.field] \notin FalsyValues)

\* not_in evaluated against a context without the field returned false.
C23_Witness ==
    /\ Evaluated
    /\ call.constraint.operator = Op_not_in
    /\ call.constraint.field \notin DOMAIN call.context
    /\ call.result = Returns(FALSE)


(***************************************************************************)
(* The gates of check, warrant by warrant.                                 *)
(***************************************************************************)
\* The warrant gets as far as the temporal gate.
ReachesTemporalGate(w, req) ==
    GateStatus(w) /\ GateAction(w, req) /\ GateRole(w, req) /\ GateData(w, req)

\* The warrants the returned check looked at, by catalog position.
Visited == 1..call.visited

(***************************************************************************)
(* C24.  The temporal gate is inclusive at both bounds: a warrant passes   *)
(* it exactly when valid_from <= request time <= valid_until, so a request *)
(* timestamped exactly at valid_from or exactly at valid_until is not      *)
(* treated as expired; a request outside the window makes the warrant      *)
(* record "warrant:<id>:expired" and never authorize.                      *)
(***************************************************************************)
C24_TemporalGateInclusive ==
    Returned =>
        LET req == call.request
            res == call.response
        IN /\ res.decision = "AUTHORIZED" => GateTime(warrants[call.visited], req)
           /\ res.decision # "AUTHORIZED" =>
                 \A i \in Visited :
                     ReachesTemporalGate(warrants[i], req) =>
                         ( InSeq(ReasonOf(warrants[i], R_expired), res.deny_reasons)
                             <=> ~GateTime(warrants[i], req) )
           /\ \A i \in Visited :
                 ( /\ ReachesTemporalGate(warrants[i], req)
                   /\ req.timestamp.wall \in {warrants[i].valid_from.wall,
                                              warrants[i].valid_until.wall} )
                 => ~InSeq(ReasonOf(warrants[i], R_expired), res.deny_reasons)

\* A request timestamped exactly at valid_until, after valid_from, was
\* authorized by the warrant.
C24_Witness ==
    /\ Returned
    /\ call.response.decision = "AUTHORIZED"
    /\ call.request.timestamp.wall = warrants[call.visited].valid_until.wall
    /\ call.request.timestamp.wall > warrants[call.visited].valid_from.wall


R_conditions_failed == << "c", "o", "n", "d", "i", "t", "i", "o", "n", "s", "_", "f", "a", "i", "l", "e", "d" >>

\* The deny reasons a warrant can contribute.
ReasonsOf(w) ==
    {ReasonOf(w, kind) :
        kind \in {R_revoked, R_suspended, R_expired, R_conditions_failed,
                  R_capability_not_allowed}}

\* The response shows a trace of the warrant: a deny reason of its own, or
\* its id as the response's warrant_id.
LeftTrace(w) ==
    \/ \E k \in 1..Len(call.response.deny_reasons) : call.response.deny_reasons[k] \in ReasonsOf(w)
    \/ call.response.warrant_id = Some(w.id)

(***************************************************************************)
(* C25.  The role gate passes exactly when the request role is empty, or   *)
(* the warrant's role list is empty, or the request role is in the         *)
(* warrant's role list, and the data-type gate follows the same rule on    *)
(* data_type; a warrant failing the action, role or data-type gate is      *)
(* skipped without adding any deny reason.  (A warrant in force that       *)
(* passes the three gates goes on to the later gates, each of which shows  *)
(* in the response; one that fails any of them leaves no trace.)           *)
(***************************************************************************)
C25_RoleAndDataGates ==
    Returned =>
        \A i \in Visited :
            LET w == warrants[i]
                req == call.request
            IN GateStatus(w) =>
                  /\ ~(GateAction(w, req) /\ GateRole(w, req) /\ GateData(w, req))
                        => ~LeftTrace(w)
                  /\ ( /\ GateAction(w, req) /\ GateRole(w, req) /\ GateData(w, req)
                       /\ call.response.decision = "AUTHORIZED" => i = call.visited )
                        => LeftTrace(w)

\* A warrant with a role list was skipped over a role it does not list, and
\* the warrant after it authorized.
C25_Witness ==
    /\ Returned
    /\ call.visited = 2
    /\ call.response.decision = "AUTHORIZED"
    /\ warrants[1].roles # << >>
    /\ call.request.role # << >>
    /\ ~InSeq(call.request.role, warrants[1].roles)
    /\ GateStatus(warrants[1]) /\ GateAction(warrants[1], call.request)
    /\ GateData(warrants[1], call.request)


\* The conditions the warrant evaluates to for the request of the call.
ConditionsOf(w) == evaluate_conditions(w, call.request).res

\* The warrant at catalog position i got to the condition gate with at
\* least one condition that is not met.
FailsConditionGate(i) ==
    /\ i \in Visited
    /\ ReachesConditionGate(warrants[i], call.request)
    /\ ~evaluate_conditions(warrants[i], call.request).raised
    /\ \E k \in 1..Len(ConditionsOf(warrants[i])) : ~ConditionsOf(warrants[i])[k].met

\* The check escalated on the warrant at position i.
EscalatedAt(i) ==
    /\ call.visited = i
    /\ call.response.decision = "ESCALATE"
    /\ call.response.warrant_id = Some(warrants[i].id)

\* The check went past the warrant at position i with conditions_failed.
ConditionsFailedAt(i) ==
    /\ ~EscalatedAt(i)
    /\ call.response.decision # "AUTHORIZED" =>
          InSeq(ReasonOf(warrants[i], R_conditions_failed), call.response.deny_reasons)

\* A word that triggers escalation is in the text, in any case.
HasTriggerWord(text) ==
    \/ Contains(Lower(text), << "e", "s", "c", "a", "l", "a", "t", "i", "o", "n" >>)
    \/ Contains(Lower(text), << "t", "h", "r", "e", "s", "h", "o", "l", "d" >>)
    \/ Contains(Lower(text), << "e", "x", "c", "e", "e", "d", "s" >>)

(***************************************************************************)
(* C26.  Only conditions that are not met can trigger escalation: for a    *)
(* warrant reaching the condition gate with at least one failed condition, *)
(* the outcome for that warrant is ESCALATE if and only if some failed     *)
(* condition's detail contains "escalation", "threshold" or "exceeds"      *)
(* (case-insensitively).  A met condition whose detail contains such a     *)
(* word next to a failed condition without one yields conditions_failed;   *)
(* a failed condition with such a word next to a failed condition without  *)
(* one yields ESCALATE.                                                    *)
(***************************************************************************)
C26_OnlyFailedConditionsEscalate ==
    Returned =>
        \A i \in 1..Len(warrants) :
            FailsConditionGate(i) =>
                LET conditions == ConditionsOf(warrants[i])
                    failed_trigger ==
                        \E k \in 1..Len(conditions) :
                            ~conditions[k].met /\ HasTriggerWord(conditions[k].detail)
                IN /\ failed_trigger => EscalatedAt(i)
                   /\ ~failed_trigger => ConditionsFailedAt(i)

\* A warrant whose trade limit is met ("Within threshold (5)") and whose
\* required flag is missing went by with conditions_failed.
C26_Witness ==
    /\ Returned
    /\ call.response.decision = "DENIED"
    /\ FailsConditionGate(1)
    /\ \E k \in 1..Len(ConditionsOf(warrants[1])) :
          ConditionsOf(warrants[1])[k].met /\ HasTriggerWord(ConditionsOf(warrants[1])[k].detail)
    /\ InSeq(ReasonOf(warrants[1], R_conditions_failed), call.response.deny_reasons)


(***************************************************************************)
(* The authorized-execution counter.                                       *)
(***************************************************************************)
\* The decisions of the checks made so far, oldest first.
DecisionsSoFar == [i \in 1..Len(chain) |-> chain[i].decision]

(***************************************************************************)
(* C27.  The engine's authorized-execution counter starts at 0, is         *)
(* increased by exactly 1 by every check that returns AUTHORIZED, is left  *)
(* unchanged by every check that returns DENIED, ESCALATE, NO_WARRANT or   *)
(* EXPIRED, and never decreases or resets over any sequence of check       *)
(* calls.                                                                  *)
(***************************************************************************)
C27_CounterCountsAuthorized ==
    /\ execution_count = 0
    /\ [][ /\ execution_count' >= execution_count
           /\ call'.kind = "returned" =>
                 IF call'.response.decision = "AUTHORIZED"
                 THEN execution_count' = execution_count + 1
                 ELSE /\ call'.response.decision \in {"DENIED", "ESCALATE", "NO_WARRANT", "EXPIRED"}
                      /\ execution_count' = execution_count ]_vars

\* Three checks in a row: AUTHORIZED, then a decision that is not, then
\* AUTHORIZED again; the counter stands at 2.
C27_Witness ==
    /\ Len(chain) = 3
    /\ DecisionsSoFar[1] = "AUTHORIZED"
    /\ DecisionsSoFar[2] \in {"DENIED", "ESCALATE", "NO_WARRANT", "EXPIRED"}
    /\ DecisionsSoFar[3] = "AUTHORIZED"
    /\ execution_count = 2


(***************************************************************************)
(* The record hash.                                                        *)
(***************************************************************************)
\* The hash recomputed from a record's own stored fields.
RecomputedHash(r) ==
    compute_hash([agent_id |-> r.agent_id, warrant_id |-> r.warrant_id,
                  action |-> r.action, decision |-> r.decision,
                  conditions |-> r.conditions_evaluated,
                  correlation_id |-> r.correlation_id, timestamp |-> r.timestamp],
                 r.previous_hash)

(***************************************************************************)
(* C28.  Every stored audit record's record_hash can be recomputed from    *)
(* the record itself: it is the hash of the canonical JSON of the record's *)
(* own stored agent_id, warrant_id, action, decision, conditions,          *)
(* correlation_id and stored timestamp, concatenated with the record's     *)
(* stored previous_hash; in particular the timestamp that was hashed is    *)
(* the timestamp stored in the record.                                     *)
(***************************************************************************)
C28_RecordHashRecomputable ==
    \A i \in 1..Len(chain) : chain[i].record_hash = RecomputedHash(chain[i])


(***************************************************************************)
(* The deny reasons of a response.                                         *)
(***************************************************************************)
\* The warrant gets to the condition gate and some condition is not met.
ConditionNotMet(w, req) ==
    /\ ReachesConditionGate(w, req)
    /\ \E k \in 1..Len(evaluate_conditions(w, req).res) : ~evaluate_conditions(w, req).res[k].met

\* The deny reasons the warrant contributes when the loop goes past it:
\* one for the gate it fails among status, temporal, condition and
\* capability, none when it is skipped at the action, role or data-type gate.
ReasonsFor(w, req) ==
    IF w.status = Some("revoked") THEN << ReasonOf(w, R_revoked) >>
    ELSE IF w.status = Some("suspended") THEN << ReasonOf(w, R_suspended) >>
    ELSE IF ~Applicable(w, req) THEN << >>
    ELSE IF ~GateTime(w, req) THEN << ReasonOf(w, R_expired) >>
    ELSE IF ConditionNotMet(w, req) THEN << ReasonOf(w, R_conditions_failed) >>
    ELSE IF ~GateCapability(w, req) THEN << ReasonOf(w, R_capability_not_allowed) >>
    ELSE << >>

\* The deny reasons of the first n warrants of the catalog, in catalog order.
RECURSIVE ReasonsUpTo(_)
ReasonsUpTo(n) ==
    IF n = 0 THEN << >>
    ELSE ReasonsUpTo(n - 1) \o ReasonsFor(warrants[n], call.request)

(***************************************************************************)
(* C29.  In a DENIED or EXPIRED response, deny_reasons contains exactly    *)
(* one entry for each warrant that failed the status, temporal, condition  *)
(* or capability gate, in catalog order, and no entry for warrants skipped *)
(* at the action, role or data-type gate; an ESCALATE response carries the *)
(* reasons collected from the warrants evaluated before the escalating     *)
(* one; an AUTHORIZED response has empty deny_reasons even when earlier     *)
(* warrants were denied.                                                   *)
(***************************************************************************)
C29_DenyReasonsInCatalogOrder ==
    Returned =>
        LET res == call.response
        IN /\ res.decision \in {"DENIED", "EXPIRED"} =>
                 res.deny_reasons = ReasonsUpTo(Len(warrants))
           /\ res.decision = "ESCALATE" =>
                 res.deny_reasons = ReasonsUpTo(call.visited - 1)
           /\ res.decision = "AUTHORIZED" => res.deny_reasons = << >>

\* A DENIED response over a catalog of two warrants: the first failed the
\* temporal gate, the second the status gate, and the two reasons come in
\* that order.
C29_Witness ==
    /\ Returned
    /\ call.response.decision = "DENIED"
    /\ Len(warrants) = 2
    /\ ~GateTime(warrants[1], call.request)
    /\ ~GateStatus(warrants[2])
    /\ call.response.deny_reasons =
          << ReasonOf(warrants[1], R_expired), ReasonOf(warrants[2], R_revoked) >>


(***************************************************************************)
(* What a DENIED response says about a warrant.                            *)
(***************************************************************************)
\* The catalog positions of the warrants that failed the condition gate.
FailedConditionGate == {i \in 1..Len(warrants) : ConditionNotMet(warrants[i], call.request)}

\* The last of them in catalog order.
LastFailed == CHOOSE i \in FailedConditionGate : \A j \in FailedConditionGate : j <= i

(***************************************************************************)
(* C30.  A DENIED response's warrant_id, authority and conditions_evaluated *)
(* are those of the last warrant in catalog order that failed the          *)
(* condition gate without escalating; when no warrant failed the condition *)
(* gate (the denial came only from revoked or suspended warrants, the      *)
(* capability gate, or a mix with expiry), warrant_id and authority are    *)
(* null and conditions_evaluated is empty.                                 *)
(***************************************************************************)
C30_DeniedNamesLastFailedWarrant ==
    (Returned /\ call.response.decision = "DENIED") =>
        LET res == call.response
        IN IF FailedConditionGate = {}
           THEN /\ res.warrant_id = None
                /\ res.authority = None
                /\ res.conditions_evaluated = << >>
           ELSE LET lw == warrants[LastFailed]
                IN /\ res.warrant_id = Some(lw.id)
                   /\ res.authority =
                         Some([issuer |-> lw.issuer, type |-> lw.id,
                               issued |-> IsoFormat(lw.valid_from),
                               expires |-> IsoFormat(lw.valid_until),
                               scope |-> lw.actions])
                   /\ res.conditions_evaluated = evaluate_conditions(lw, call.request).res

\* Two different warrants failed the condition gate and the DENIED
\* response names the second.
C30_Witness ==
    /\ Returned
    /\ call.response.decision = "DENIED"
    /\ FailedConditionGate = {1, 2}
    /\ warrants[1].id # warrants[2].id
    /\ call.response.warrant_id = Some(warrants[2].id)
    /\ Len(call.response.conditions_evaluated) > 0


(***************************************************************************)
(* Legacy conditions.                                                      *)
(***************************************************************************)
\* The catalog with the legacy conditions taken off every warrant that
\* carries a structured constraint.
WithoutShadowedConditions ==
    [i \in 1..Len(warrants) |->
        IF warrants[i].context_constraints # << >>
        THEN [warrants[i] EXCEPT !.conditions = << >>]
        ELSE warrants[i]]

\* The names of the conditions a response reports, in order.
ConditionNames(res) ==
    [k \in 1..Len(res.conditions_evaluated) |-> res.conditions_evaluated[k].condition]

(***************************************************************************)
(* C31.  When a warrant carries at least one structured constraint, only   *)
(* the structured constraints are evaluated and its legacy conditions are  *)
(* ignored entirely (a failing or escalation-triggering legacy condition   *)
(* has no effect on the decision); legacy conditions are evaluated only    *)
(* when the structured constraint list is empty.                           *)
(***************************************************************************)
C31_StructuredConstraintsShadowLegacy ==
    Returned =>
        LET res == call.response
            bare == check_loop(WithoutShadowedConditions, call.request, 0, 1, CheckLocals).response
        IN /\ res.decision = bare.decision
           /\ res.warrant_id = bare.warrant_id
           /\ res.conditions_evaluated = bare.conditions_evaluated
           /\ res.deny_reasons = bare.deny_reasons
           /\ \A i \in Visited :
                 ( /\ res.warrant_id = Some(warrants[i].id)
                   /\ res.decision \in {"AUTHORIZED", "ESCALATE", "DENIED"} )
                 => ConditionNames(res) =
                       IF warrants[i].context_constraints # << >>
                       THEN [k \in 1..Len(warrants[i].context_constraints) |->
                                warrants[i].context_constraints[k].field]
                       ELSE [k \in 1..Len(warrants[i].conditions) |->
                                warrants[i].conditions[k].key]

\* A warrant whose structured constraint is met authorized a request that
\* its legacy conditions, had they been evaluated, would have escalated.
C31_Witness ==
    /\ Returned
    /\ call.response.decision = "AUTHORIZED"
    /\ call.visited = 1
    /\ warrants[1].context_constraints # << >>
    /\ LET legacy == LegacyFrom(warrants[1].conditions, call.request, 1).res
       IN \E k \in 1..Len(legacy) : ~legacy[k].met /\ HasTriggerWord(legacy[k].detail)


\* The first warrant of the catalog has no structured constraint and the
\* given legacy condition key first.
FirstConditionIs(keys) ==
    /\ warrants[1].context_constraints = << >>
    /\ warrants[1].conditions # << >>
    /\ warrants[1].conditions[1].key \in keys

\* The value of the first legacy condition of the first warrant.
FirstConditionValue == warrants[1].conditions[1].value

\* The context entry at the first of the keys the context holds.
FirstEntry(context, keys) ==
    context[keys[CHOOSE i \in 1..Len(keys) :
                    /\ keys[i] \in DOMAIN context
                    /\ \A j \in 1..(i - 1) : keys[j] \notin DOMAIN context]]

\* The first warrant authorized, its first condition met.
AuthorizedByFirst ==
    /\ call.response.decision = "AUTHORIZED"
    /\ call.response.warrant_id = Some(warrants[1].id)
    /\ call.response.conditions_evaluated[1].met

\* The check escalated on the first warrant, its first condition not met.
EscalatedByFirst ==
    /\ EscalatedAt(1)
    /\ ~call.response.conditions_evaluated[1].met

(***************************************************************************)
(* C32.  A legacy condition keyed "escalation_threshold" or                *)
(* "single_trade_limit" is met if and only if amount <= threshold, where   *)
(* amount is the context's "amount" entry, or the "trade_amount" entry     *)
(* when "amount" is absent, and threshold is the condition value coerced   *)
(* to an integer; whenever it is not met, the warrant's outcome is         *)
(* ESCALATE (never DENIED).                                                *)
(***************************************************************************)
C32_ThresholdConditionEscalates ==
    ( /\ Returned
      /\ FirstConditionIs({"escalation_threshold", "single_trade_limit"})
      /\ {"amount", "trade_amount"} \cap DOMAIN call.request.context # {} )
    => LET amount == FirstEntry(call.request.context, << "amount", "trade_amount" >>).v
           threshold == IF FirstConditionValue.t = "str"
                        THEN ParseNat(FirstConditionValue.v, Len(FirstConditionValue.v))
                        ELSE FirstConditionValue.v
       IN IF amount <= threshold THEN AuthorizedByFirst ELSE EscalatedByFirst

\* A threshold written as the string "5": with no "amount" entry and a
\* "trade_amount" of 7 the check escalated.
C32_Witness ==
    /\ Returned
    /\ FirstConditionIs({"escalation_threshold", "single_trade_limit"})
    /\ FirstConditionValue.t = "str"
    /\ "amount" \notin DOMAIN call.request.context
    /\ "trade_amount" \in DOMAIN call.request.context
    /\ EscalatedByFirst


(***************************************************************************)
(* C33.  A legacy condition whose value is a scalar (a string or a number  *)
(* that is not boolean true and not the string "required", under a key     *)
(* other than the threshold and payout keys) is met if and only if the     *)
(* string form of the context value at that key equals the string form of  *)
(* the scalar; a request whose context value differs from the scalar, or   *)
(* lacks the key, fails the condition.                                     *)
(***************************************************************************)
C33_ScalarConditionIsStringEquality ==
    (Returned /\ FirstConditionIs({"tier"}) /\ FirstConditionValue.t \in {"str", "int"})
    => LET context == call.request.context
           equal == /\ "tier" \in DOMAIN context
                    /\ PyStr(context["tier"]) = PyStr(FirstConditionValue)
       IN /\ equal => AuthorizedByFirst
          /\ ~equal => /\ ~AuthorizedByFirst
                       /\ call.response.warrant_id = Some(warrants[1].id) =>
                             ~call.response.conditions_evaluated[1].met


(***************************************************************************)
(* C34.  A legacy condition whose value is boolean true or the string      *)
(* "required" is met if and only if the request context holds a truthy     *)
(* value at that key; when such a condition is the only kind that fails    *)
(* for a warrant, the warrant's outcome is conditions_failed (decision     *)
(* DENIED when nothing later authorizes or escalates), never ESCALATE, and *)
(* the failed condition appears in the response's conditions_evaluated.    *)
(***************************************************************************)
C34_RequiredConditionDenies ==
    (Returned /\ FirstConditionIs({"consent"}))
    => LET context == call.request.context
           res == call.response
           truthy == "consent" \in DOMAIN context /\ context["consent"] \notin FalsyValues
       IN IF truthy THEN AuthorizedByFirst
          ELSE /\ res.decision # "ESCALATE"
               /\ res.decision # "AUTHORIZED" =>
                     /\ res.decision = "DENIED"
                     /\ InSeq(ReasonOf(warrants[1], R_conditions_failed), res.deny_reasons)
                     /\ res.warrant_id = Some(warrants[1].id)
                     /\ res.conditions_evaluated # << >>
                     /\ res.conditions_evaluated[1].condition = "consent"
                     /\ ~res.conditions_evaluated[1].met


(***************************************************************************)
(* C35.  A legacy "payout_within_authority" condition whose value is a map *)
(* is met if and only if amount <= the limit mapped to the request's role, *)
(* with the limit taken as 0 when the role is not in the map and amount    *)
(* taken from "amount" or else "payout_amount"; a request whose role is    *)
(* absent from the map with a positive amount therefore fails the          *)
(* condition, and every failure of this condition results in ESCALATE.     *)
(***************************************************************************)
C35_PayoutLimitByRole ==
    ( /\ Returned
      /\ FirstConditionIs({"payout_within_authority"})
      /\ FirstConditionValue.t = "dict"
      /\ {"amount", "payout_amount"} \cap DOMAIN call.request.context # {} )
    => LET amount == FirstEntry(call.request.context, << "amount", "payout_amount" >>).v
           limits == FirstConditionValue.v
           limit == IF call.request.role \in DOMAIN limits
                    THEN limits[call.request.role].v
                    ELSE 0
       IN IF amount <= limit THEN AuthorizedByFirst ELSE EscalatedByFirst

\* A role that the map does not list, with an amount of 3: the check
\* escalated.
C35_Witness ==
    /\ Returned
    /\ FirstConditionIs({"payout_within_authority"})
    /\ call.request.role \notin DOMAIN FirstConditionValue.v
    /\ "amount" \in DOMAIN call.request.context
    /\ call.request.context["amount"] = IntV(3)
    /\ EscalatedByFirst


(***************************************************************************)
(* C38.  For a warrant whose only failing legacy condition is an           *)
(* allow-list (list-valued) or exact-match (string-valued) condition, the  *)
(* outcome does not depend on which non-matching value the request         *)
(* supplies: whatever the non-matching context value at that key, the      *)
(* warrant's outcome is conditions_failed (decision DENIED when nothing    *)
(* later authorizes) and never ESCALATE.                                   *)
(***************************************************************************)
C38_NonMatchingValueNeverEscalates ==
    ( /\ Returned
      /\ FirstConditionIs({"tier", "region"})
      /\ FirstConditionValue.t \in {"str", "list"}
      /\ Len(warrants[1].conditions) = 1
      /\ warrants[1].conditions[1].key \in DOMAIN call.request.context )
    => LET supplied == call.request.context[warrants[1].conditions[1].key]
           matching == IF FirstConditionValue.t = "list"
                       THEN InSeq(supplied, FirstConditionValue.v)
                       ELSE PyStr(supplied) = FirstConditionValue.v
       IN ~matching =>
             /\ call.response.decision # "ESCALATE"
             /\ call.response.decision # "AUTHORIZED" =>
                   /\ call.response.decision = "DENIED"
                   /\ InSeq(ReasonOf(warrants[1], R_conditions_failed),
                            call.response.deny_reasons)


\* The hash the next record is chained to: that of the last record, or the
\* genesis hash.
HashBefore(records) ==
    IF records = << >> THEN GENESIS_HASH ELSE records[Len(records)].record_hash

\* A check of the request against the one warrant w would authorize or
\* escalate.
DecidesAlone(w, req) ==
    LET out == check_loop(<< w >>, req, 0, 1, CheckLocals)
    IN ~out.raised /\ out.response.decision \in {"AUTHORIZED", "ESCALATE"}

(***************************************************************************)
(* C36.  When check aborts with the unknown-operator error, the engine     *)
(* state is unchanged: no audit record is appended, no event hook is       *)
(* fired and the authorized counter is not incremented, so that a later    *)
(* check returns the response and takes the chain position that the        *)
(* records alone determine, the aborted call leaving no trace.  The error  *)
(* is raised only at a warrant that holds a constraint of unknown operator *)
(* and is reached at the condition gate: it passes the status, action,     *)
(* role, data type and time gates, and no warrant before it authorizes or  *)
(* escalates.                                                              *)
(***************************************************************************)
C36_AbortLeavesNoTrace ==
    [][ /\ call'.kind = "raised" =>
            /\ UNCHANGED << warrants, chain, previous_hash, execution_count, events >>
            /\ LET w == warrants[call'.visited]
                   req == call'.request
               IN /\ \E k \in 1..Len(w.context_constraints) :
                         w.context_constraints[k].operator \notin FixedOperators
                  /\ ReachesTemporalGate(w, req)
                  /\ GateTime(w, req)
                  /\ \A j \in 1..(call'.visited - 1) : ~DecidesAlone(warrants[j], req)
        /\ call'.kind = "returned" =>
            LET authorized == Len(SelectSeq(chain, LAMBDA r : r.decision = "AUTHORIZED"))
                out == check_loop(warrants, call'.request, authorized, 1, CheckLocals)
            IN /\ Len(chain') = Len(chain) + 1
               /\ chain'[Len(chain')].previous_hash = HashBefore(chain)
               /\ call'.response = Finalized(out.response, chain'[Len(chain')])
               /\ Len(events') - Len(events) \in 0..3 ]_vars

\* After one authorized check, recorded and announced to the hooks, a
\* check aborted at the first of two warrants.
C36_Witness ==
    /\ call.kind = "raised"
    /\ call.visited = 1
    /\ Len(warrants) = 2
    /\ Len(chain) = 1
    /\ execution_count = 1
    /\ Len(events) = 2


\* The callbacks a check with the given decision invokes, in order: the
\* sink, on_decision, then the hook of the decision.
CallbacksFor(decision) ==
    LET specific == IF decision = "AUTHORIZED" THEN << "on_authorized" >>
                    ELSE IF decision = "DENIED" THEN << "on_denied" >>
                    ELSE IF decision = "ESCALATE" THEN << "on_escalate" >>
                    ELSE << >>
    IN SelectSeq(<< "on_record", "on_decision" >> \o specific, LAMBDA h : h \in hooks)

(***************************************************************************)
(* C39.  If an event hook or the audit sink raises during a check, the     *)
(* decision has already been recorded: the chain holds exactly one new     *)
(* record for that check and still verifies, last_hash equals that         *)
(* record's hash, and for an AUTHORIZED decision the authorized counter    *)
(* has already been incremented; the exception propagates to the caller    *)
(* (no response is returned) and no hook ordered after the failing one is  *)
(* fired.                                                                  *)
(***************************************************************************)
C39_CallbackFailureAfterRecord ==
    [][ call'.kind = "callback_raised" =>
           /\ Len(chain') = Len(chain) + 1
           /\ LET record == chain'[Len(chain')]
                  expected == CallbacksFor(call'.decision)
                  fired == SubSeq(events', Len(events) + 1, Len(events'))
              IN /\ chain' = Append(chain, record)
                 /\ record.decision = call'.decision
                 /\ record.action = call'.request.action
                 /\ verify_chain(chain')
                 /\ previous_hash' = record.record_hash
                 /\ call'.decision = "AUTHORIZED" => execution_count' = execution_count + 1
                 /\ fired # << >>
                 /\ fired[Len(fired)].hook = call'.by
                 /\ Len(fired) <= Len(expected)
                 /\ \A k \in 1..Len(fired) : fired[k].hook = expected[k] ]_vars

\* With the four hooks and no sink, on_decision raised on an AUTHORIZED
\* check: the record is there and on_authorized was not fired.
C39_Witness ==
    /\ call.kind = "callback_raised"
    /\ call.by = "on_decision"
    /\ call.decision = "AUTHORIZED"
    /\ hooks = EngineHooks
    /\ Len(chain) = 1
    /\ chain[1].decision = "AUTHORIZED"
    /\ previous_hash = chain[1].record_hash
    /\ execution_count = 1
    /\ Len(events) = 1
    /\ events[1].hook = "on_decision"


(***************************************************************************)
(* C37.  check never changes the warrant catalog: after any sequence of    *)
(* check calls the engine holds the same warrants in the same order as at  *)
(* construction, and adding to or removing from the list the caller passed *)
(* to the constructor, or the list returned by the warrants property, does *)
(* not change which warrants later checks evaluate: no step changes the    *)
(* catalog, and every check returns the response computed from it.         *)
(***************************************************************************)
C37_CatalogUnchanged ==
    [][ /\ warrants' = warrants
        /\ call' # call =>
             LET authorized == Len(SelectSeq(chain, LAMBDA r : r.decision = "AUTHORIZED"))
                 out == check_loop(warrants, call'.request, authorized, 1, CheckLocals)
             IN call'.response = Finalized(out.response, chain'[Len(chain')]) ]_vars

\* The caller has emptied the list it passed and extended the list the
\* property returned; the check after that was authorized by the second
\* warrant of the catalog, which is as constructed.
C37_Witness ==
    /\ Len(caller) = 2
    /\ caller[1] = << >>
    /\ Len(caller[2]) = 3
    /\ warrants = << W_consent, W_limit >>
    /\ Returned
    /\ call.response.decision = "AUTHORIZED"
    /\ call.response.warrant_id = Some(W_limit.id)
    /\ Len(chain) = 1

====
